---- MODULE Spec2Model ----
(***************************************************************************)
(* Model of the FullBinaryTree<T> container (C++ FullBinaryTree.h and its  *)
(* Go port).  The node graph is a heap of Node records addressed by node   *)
(* ids; NULL is the null pointer.  Every public mutation is one action.    *)
(***************************************************************************)
EXTENDS Integers, Sequences, FiniteSets, TLC

\* ---- bounds -------------------------------------------------------------
MaxNodes == 7                 \* heap cells available to operator new
MaxValue == 3                 \* payloads are 1..MaxValue

NULL == 0
NodeIds == 1..MaxNodes
Values == 1..MaxValue

\* root, size: the tree under test; other: a second tree object (its root and
\* size) living in the same heap nodes; last, pre: the last call and the
\* state it started from; queue, table: a Go Queue and a Go HashTable;
\* qhist, thist: the calls made on them
VARIABLES root, nodes, size, other, last, pre, queue, qhist, table, thist, goTree

vars == <<root, nodes, size, other, last, pre, queue, qhist, table, thist, goTree>>

\* ---- Node and heap primitives -------------------------------------------

\* struct Node { T data; Node* left; Node* right; Node(const T& value) }
Node(value) == [data |-> value, left |-> NULL, right |-> NULL]

\* operator new: the allocator hands out the lowest free cell
NewId(h) == CHOOSE n \in NodeIds \ DOMAIN h : \A m \in NodeIds \ DOMAIN h : n <= m

New(h, id, value) == [n \in (DOMAIN h) \cup {id} |-> IF n = id THEN Node(value) ELSE h[n]]

\* operator delete (delete of a null pointer does nothing)
Delete(h, n) == [m \in (DOMAIN h) \ {n} |-> h[m]]

\* PushChildren that pushes nothing
PushChildren_Nothing(h, current) == <<>>

\* PushChildren with the two pushes in the wrong order
PushChildren_RightFirst(h, current) ==
    (IF h[current].right # NULL THEN <<h[current].right>> ELSE <<>>)
 \o (IF h[current].left # NULL THEN <<h[current].left>> ELSE <<>>)

\* children of a node pushed on a BFS queue of plain nodes
PushChildren(h, current) ==
    (IF h[current].left # NULL THEN <<h[current].left>> ELSE <<>>)
 \o (IF h[current].right # NULL THEN <<h[current].right>> ELSE <<>>)

\* PushChildPairs with the two pushes in the wrong order
PushChildPairs_RightFirst(h, current) ==
    (IF h[current].right # NULL THEN << <<h[current].right, current>> >> ELSE <<>>)
 \o (IF h[current].left # NULL THEN << <<h[current].left, current>> >> ELSE <<>>)

\* children of a node pushed on a BFS queue of (node, parent) pairs
PushChildPairs(h, current) ==
    (IF h[current].left # NULL THEN << <<h[current].left, current>> >> ELSE <<>>)
 \o (IF h[current].right # NULL THEN << <<h[current].right, current>> >> ELSE <<>>)

\* ---- destroyTree / clear ------------------------------------------------
RECURSIVE destroyTree(_, _)
destroyTree(h, node) ==
    IF node = NULL THEN h
    ELSE Delete(destroyTree(destroyTree(h, h[node].left), h[node].right), node)

\* clear that frees the nodes and resets root but leaves size as it was
clear_KeepSize(t) == [root |-> NULL, nodes |-> destroyTree(t.nodes, t.root), size |-> t.size]

clear(t) == [root |-> NULL, nodes |-> destroyTree(t.nodes, t.root), size |-> 0]

\* ---- insert -------------------------------------------------------------
\* InsertScan with a stack in place of the queue (depth-first walk)
RECURSIVE InsertScan_DepthFirst(_, _)
InsertScan_DepthFirst(h, q) ==
    IF q = <<>> THEN NULL
    ELSE LET current == Head(q) IN
         IF h[current].left = NULL /\ h[current].right = NULL
         THEN current
         ELSE InsertScan_DepthFirst(h, PushChildren(h, current) \o Tail(q))

\* InsertScan that never pushes the children: only the root is examined
InsertScan_NoLoop(h, q) ==
    IF q = <<>> THEN NULL
    ELSE LET current == Head(q) IN
         IF h[current].left = NULL /\ h[current].right = NULL
         THEN current
         ELSE NULL

\* the while loop of insert: the first node without children, in level order
RECURSIVE InsertScan(_, _)
InsertScan(h, q) ==
    IF q = <<>> THEN NULL
    ELSE LET current == Head(q) IN
         IF h[current].left = NULL /\ h[current].right = NULL
         THEN current
         ELSE InsertScan(h, Tail(q) \o PushChildren(h, current))

\* insert that counts one node for the pair it attaches
insert_CountsOne(t, value) ==
    IF t.root = NULL
    THEN LET id == NewId(t.nodes) IN
         [root |-> id, nodes |-> New(t.nodes, id, value), size |-> 1]
    ELSE LET current == InsertScan(t.nodes, <<t.root>>) IN
         IF current = NULL THEN t
         ELSE LET l  == NewId(t.nodes)
                  h1 == New(t.nodes, l, value)
                  r  == NewId(h1)
                  h2 == New(h1, r, value)
              IN [root  |-> t.root,
                  nodes |-> [h2 EXCEPT ![current].left = l, ![current].right = r],
                  size  |-> t.size + 1]

insert(t, value) ==
    IF t.root = NULL
    THEN LET id == NewId(t.nodes) IN
         [root |-> id, nodes |-> New(t.nodes, id, value), size |-> 1]
    ELSE LET current == InsertScan(t.nodes, <<t.root>>) IN
         IF current = NULL THEN t
         ELSE LET l  == NewId(t.nodes)
                  h1 == New(t.nodes, l, value)
                  r  == NewId(h1)
                  h2 == New(h1, r, value)
              IN [root  |-> t.root,
                  nodes |-> [h2 EXCEPT ![current].left = l, ![current].right = r],
                  size  |-> t.size + 2]

\* ---- find ---------------------------------------------------------------
\* FindScan that compares the root only
FindScan_RootOnly(h, q, value) ==
    IF q = <<>> THEN FALSE
    ELSE h[Head(q)].data = value

\* FindScan that follows left children only
RECURSIVE FindScan_LeftOnly(_, _, _)
FindScan_LeftOnly(h, q, value) ==
    IF q = <<>> THEN FALSE
    ELSE LET current == Head(q) IN
         IF h[current].data = value THEN TRUE
         ELSE FindScan_LeftOnly(h, Tail(q) \o (IF h[current].left # NULL
                                               THEN <<h[current].left>> ELSE <<>>), value)

RECURSIVE FindScan(_, _, _)
FindScan(h, q, value) ==
    IF q = <<>> THEN FALSE
    ELSE LET current == Head(q) IN
         IF h[current].data = value THEN TRUE
         ELSE FindScan(h, Tail(q) \o PushChildren(h, current), value)

find(t, value) == IF t.root = NULL THEN FALSE ELSE FindScan(t.nodes, <<t.root>>, value)

\* ---- isFullBinaryTree ---------------------------------------------------
\* isFullBinaryTreeHelper that tests for a missing right child only
RECURSIVE isFullBinaryTreeHelper_LeftOnly(_, _)
isFullBinaryTreeHelper_LeftOnly(h, node) ==
    IF node = NULL THEN TRUE
    ELSE IF h[node].left # NULL /\ h[node].right = NULL
         THEN FALSE
         ELSE isFullBinaryTreeHelper_LeftOnly(h, h[node].left)
              /\ isFullBinaryTreeHelper_LeftOnly(h, h[node].right)

RECURSIVE isFullBinaryTreeHelper(_, _)
isFullBinaryTreeHelper(h, node) ==
    IF node = NULL THEN TRUE
    ELSE IF (h[node].left = NULL /\ h[node].right # NULL)
         \/ (h[node].left # NULL /\ h[node].right = NULL)
         THEN FALSE
         ELSE isFullBinaryTreeHelper(h, h[node].left) /\ isFullBinaryTreeHelper(h, h[node].right)

\* isFullBinaryTree that rejects the empty tree
isFullBinaryTree_NonEmptyOnly(t) == t.root # NULL /\ isFullBinaryTreeHelper(t.nodes, t.root)

isFullBinaryTree(t) == isFullBinaryTreeHelper(t.nodes, t.root)

getSize(t) == t.size

isEmpty(t) == t.size = 0

\* ---- remove -------------------------------------------------------------
\* TargetScan that keeps the last node visited as target when nothing matches
RECURSIVE TargetScan_LastOnMiss(_, _, _)
TargetScan_LastOnMiss(h, q, value) ==
    IF q = <<>> THEN <<NULL, NULL>>
    ELSE LET current == Head(q)[1]
             par     == Head(q)[2]
             q2      == Tail(q) \o PushChildPairs(h, current)
         IN IF h[current].data = value \/ q2 = <<>> THEN <<current, par>>
            ELSE TargetScan_LastOnMiss(h, q2, value)

\* TargetScan that keeps the last node holding value, not the first
RECURSIVE TargetScan_LastMatch(_, _, _)
TargetScan_LastMatch(h, q, value) ==
    IF q = <<>> THEN <<NULL, NULL>>
    ELSE LET current == Head(q)[1]
             par     == Head(q)[2]
             later   == TargetScan_LastMatch(h, Tail(q) \o PushChildPairs(h, current), value)
         IN IF later[1] # NULL THEN later
            ELSE IF h[current].data = value THEN <<current, par>>
            ELSE <<NULL, NULL>>

\* first loop of remove: (target, parent) of the first node holding value
RECURSIVE TargetScan(_, _, _)
TargetScan(h, q, value) ==
    IF q = <<>> THEN <<NULL, NULL>>
    ELSE LET current == Head(q)[1]
             par     == Head(q)[2]
         IN IF h[current].data = value THEN <<current, par>>
            ELSE TargetScan(h, Tail(q) \o PushChildPairs(h, current), value)

\* RightmostScan that stops at the first leaf met
RECURSIVE RightmostScan_FirstLeaf(_, _, _)
RightmostScan_FirstLeaf(h, q, found) ==
    IF q = <<>> THEN found
    ELSE LET current == Head(q)[1]
             par     == Head(q)[2]
         IN IF h[current].left = NULL /\ h[current].right = NULL
            THEN <<current, par>>
            ELSE RightmostScan_FirstLeaf(h, Tail(q) \o PushChildPairs(h, current), found)

\* RightmostScan that never records the parent of the leaf
RECURSIVE RightmostScan_NoParent(_, _, _)
RightmostScan_NoParent(h, q, found) ==
    IF q = <<>> THEN found
    ELSE LET current == Head(q)[1]
             found2  == IF h[current].left = NULL /\ h[current].right = NULL
                        THEN <<current, NULL>> ELSE found
         IN RightmostScan_NoParent(h, Tail(q) \o PushChildPairs(h, current), found2)

\* RightmostScan that visits the right child before the left one
RECURSIVE RightmostScan_RightFirst(_, _, _)
RightmostScan_RightFirst(h, q, found) ==
    IF q = <<>> THEN found
    ELSE LET current == Head(q)[1]
             par     == Head(q)[2]
             found2  == IF h[current].left = NULL /\ h[current].right = NULL
                        THEN <<current, par>> ELSE found
         IN RightmostScan_RightFirst(h, Tail(q) \o PushChildPairs_RightFirst(h, current),
                                     found2)

\* second loop of remove: (rightmost, rightmostParent), the last leaf met
RECURSIVE RightmostScan(_, _, _)
RightmostScan(h, q, found) ==
    IF q = <<>> THEN found
    ELSE LET current == Head(q)[1]
             par     == Head(q)[2]
             found2  == IF h[current].left = NULL /\ h[current].right = NULL
                        THEN <<current, par>> ELSE found
         IN RightmostScan(h, Tail(q) \o PushChildPairs(h, current), found2)

\* DeleteChildren that forgets the right child
DeleteChildren_LeftOnly(h, p) ==
    [Delete(h, h[p].left) EXCEPT ![p].left = NULL]

\* delete p->left; delete p->right; p->left = p->right = nullptr;
DeleteChildren(h, p) ==
    [Delete(Delete(h, h[p].left), h[p].right) EXCEPT ![p].left = NULL, ![p].right = NULL]

\* which path of remove a call takes
removeBranch(t, value) ==
    IF t.root = NULL THEN "empty"
    ELSE LET tp     == TargetScan(t.nodes, << <<t.root, NULL>> >>, value)
             target == tp[1]
             parent == tp[2]
         IN IF target = NULL THEN "notfound"
            ELSE IF t.nodes[target].left = NULL /\ t.nodes[target].right = NULL
            THEN (IF parent # NULL THEN "leaf" ELSE "soleroot")
            ELSE IF t.nodes[target].left # NULL /\ t.nodes[target].right # NULL
            THEN "internal"
            ELSE "onechild"

\* remove with another size arithmetic: the leaf branch lowers size by
\* leafDrop and the sole-root branch stores soleRootSize
removeCounting(t, value, leafDrop, soleRootSize) ==
    IF t.root = NULL THEN t
    ELSE LET tp     == TargetScan(t.nodes, << <<t.root, NULL>> >>, value)
             target == tp[1]
             parent == tp[2]
         IN IF target = NULL THEN t
            ELSE IF t.nodes[target].left = NULL /\ t.nodes[target].right = NULL
            THEN IF parent # NULL
                 THEN [root |-> t.root, nodes |-> DeleteChildren(t.nodes, parent),
                       size |-> t.size - leafDrop]
                 ELSE [root |-> NULL, nodes |-> Delete(t.nodes, t.root), size |-> soleRootSize]
            ELSE IF t.nodes[target].left # NULL /\ t.nodes[target].right # NULL
            THEN LET rm              == RightmostScan(t.nodes, << <<t.root, NULL>> >>, <<NULL, NULL>>)
                     rightmost       == rm[1]
                     rightmostParent == rm[2]
                 IN IF rightmost # NULL /\ rightmost # target
                    THEN LET h1 == [t.nodes EXCEPT ![target].data = t.nodes[rightmost].data] IN
                         IF rightmostParent # NULL
                         THEN [root |-> t.root, nodes |-> DeleteChildren(h1, rightmostParent), size |-> t.size - 2]
                         ELSE [root |-> t.root, nodes |-> h1, size |-> t.size]
                    ELSE t
            ELSE t

\* remove whose leaf branch lowers size by 1
remove_LeafCountsOne(t, value) == removeCounting(t, value, 1, 0)

\* remove whose leaf branch lowers size by the four nodes that can go
remove_LeafCountsFour(t, value) == removeCounting(t, value, 4, 0)

\* remove that leaves size alone when it deletes the only node
remove_SoleRootKeepsSize(t, value) == removeCounting(t, value, 2, t.size)

remove(t, value) ==
    IF t.root = NULL THEN t
    ELSE LET tp     == TargetScan(t.nodes, << <<t.root, NULL>> >>, value)
             target == tp[1]
             parent == tp[2]
         IN IF target = NULL THEN t
            ELSE IF t.nodes[target].left = NULL /\ t.nodes[target].right = NULL
            THEN IF parent # NULL
                 THEN [root |-> t.root, nodes |-> DeleteChildren(t.nodes, parent), size |-> t.size - 2]
                 ELSE [root |-> NULL, nodes |-> Delete(t.nodes, t.root), size |-> 0]
            ELSE IF t.nodes[target].left # NULL /\ t.nodes[target].right # NULL
            THEN LET rm              == RightmostScan(t.nodes, << <<t.root, NULL>> >>, <<NULL, NULL>>)
                     rightmost       == rm[1]
                     rightmostParent == rm[2]
                 IN IF rightmost # NULL /\ rightmost # target
                    THEN LET h1 == [t.nodes EXCEPT ![target].data = t.nodes[rightmost].data] IN
                         IF rightmostParent # NULL
                         THEN [root |-> t.root, nodes |-> DeleteChildren(h1, rightmostParent), size |-> t.size - 2]
                         ELSE [root |-> t.root, nodes |-> h1, size |-> t.size]
                    ELSE t
            ELSE t

\* ---- constructors of the Go containers -----------------------------------

\* NewQueue: cells holds the qNode objects that are reachable
NewQueue == [frontNode |-> NULL, backNode |-> NULL, size |-> 0, cells |-> << >>]

DefaultBucketCount == 16      \* bc := 16

\* NewHashTable: initialBucketCount is the variadic argument list; buckets
\* is indexed from 0; entries holds the entry objects that are reachable
NewHashTable(initialBucketCount) ==
    LET bc == IF Len(initialBucketCount) > 0 /\ initialBucketCount[1] > 0
              THEN initialBucketCount[1] ELSE DefaultBucketCount
    IN [buckets |-> [i \in 0..(bc - 1) |-> NULL], size |-> 0, bucketCount |-> bc,
        entries |-> << >>]

\* NewFullBinaryTree: nodes holds the node objects that are reachable
NewFullBinaryTree == [root |-> NULL, nodes |-> << >>, size |-> 0]

\* ---- the state machine --------------------------------------------------
Tree == [root |-> root, nodes |-> nodes, size |-> size]

\* number of calls made so far when every one of them was an insert, else -1
InsertCalls ==
    IF last.op = "new" THEN 0
    ELSE IF last.op = "insert" /\ pre.inserts >= 0 THEN pre.inserts + 1 ELSE -1

\* FullBinaryTree(): root(nullptr), size(0)
InitTree ==
    /\ root = NULL
    /\ nodes = << >>
    /\ size = 0
    /\ other = [root |-> NULL, size |-> 0]
    /\ last = [op |-> "new", arg |-> 0, branch |-> "none"]
    /\ pre = [root |-> NULL, nodes |-> << >>, size |-> 0, other |-> other, inserts |-> 0]

\* NewQueue()
InitQueue ==
    /\ queue = NewQueue
    /\ qhist = [op |-> "new", value |-> 0, err |-> "nil", pre |-> NewQueue,
                enqueued |-> <<>>, dequeued |-> 0]

\* NewHashTable(initialBucketCount...)
InitTable(initialBucketCount) ==
    /\ table = NewHashTable(initialBucketCount)
    /\ thist = [op |-> "new", key |-> 0, value |-> 0, err |-> "nil", found |-> FALSE,
                pre |-> NewHashTable(initialBucketCount), latest |-> << >>]

\* NewFullBinaryTree[int]()
InitGoTree == goTree = NewFullBinaryTree

Init == InitTree /\ InitQueue /\ InitTable(<<>>) /\ InitGoTree

Record(op, arg, branch) ==
    /\ UNCHANGED <<queue, qhist, table, thist>>
    /\ last' = [op |-> op, arg |-> arg, branch |-> branch]
    /\ pre' = [root |-> root, nodes |-> nodes, size |-> size, other |-> other,
               inserts |-> InsertCalls]

Snapshot(op, arg, branch) == Record(op, arg, branch) /\ UNCHANGED goTree

Apply(t) ==
    /\ root' = t.root
    /\ nodes' = t.nodes
    /\ size' = t.size
    /\ other' = other

Insert(value) ==
    /\ Cardinality(DOMAIN nodes) + 2 <= MaxNodes
    /\ Apply(insert(Tree, value))
    /\ Snapshot("insert", value, IF root = NULL THEN "root" ELSE "pair")

Remove(value) ==
    /\ Apply(remove(Tree, value))
    /\ Snapshot("remove", value, removeBranch(Tree, value))

Clear ==
    /\ Apply(clear(Tree))
    /\ Snapshot("clear", 0, "none")

Next ==
    \/ \E value \in Values : Insert(value)
    \/ \E value \in Values : Remove(value)
    \/ Clear

Spec == Init /\ [][Next]_vars

\* ---- observation of a tree, independent of the scans above ---------------

\* (position, node) pairs of the subtree at n; the root sits at position 1,
\* the children of position p at 2p and 2p+1, so that level order is the
\* order of increasing position
RECURSIVE Place(_, _, _)
Place(h, n, p) ==
    IF n = NULL THEN {}
    ELSE {<<p, n>>} \cup Place(h, h[n].left, 2 * p) \cup Place(h, h[n].right, 2 * p + 1)

Places(t) == Place(t.nodes, t.root, 1)

Reachable(t) == {x[2] : x \in Places(t)}

PosOf(t, n) == (CHOOSE x \in Places(t) : x[2] = n)[1]

NodeAt(t, p) == (CHOOSE x \in Places(t) : x[1] = p)[2]

\* positions paired with the values stored there: shape and contents
Shape(t) == {<<x[1], t.nodes[x[2]].data>> : x \in Places(t)}

IsLeaf(t, n) == t.nodes[n].left = NULL /\ t.nodes[n].right = NULL

IsInternal(t, n) == t.nodes[n].left # NULL /\ t.nodes[n].right # NULL

Leaves(t) == {n \in Reachable(t) : IsLeaf(t, n)}

Holders(t, v) == {n \in Reachable(t) : t.nodes[n].data = v}

Contains(t, v) == Holders(t, v) # {}

FirstOf(t, S) == CHOOSE n \in S : \A m \in S : PosOf(t, n) <= PosOf(t, m)

LastOf(t, S) == CHOOSE n \in S : \A m \in S : PosOf(t, n) >= PosOf(t, m)

ParentOf(t, n) == CHOOSE p \in Reachable(t) : t.nodes[p].left = n \/ t.nodes[p].right = n

SiblingOf(t, n) ==
    LET p == ParentOf(t, n) IN
    IF t.nodes[p].left = n THEN t.nodes[p].right ELSE t.nodes[p].left

Removed(v) == last.op = "remove" /\ last.arg = v

Inserted(v) == last.op = "insert" /\ last.arg = v

\* ---- claims -------------------------------------------------------------

\* C1: after every completed Insert, Remove or Clear, every node reachable
\* from the root has zero or exactly two children, and isFullBinaryTree()
\* returns true.
C1_FullBinaryTree ==
    /\ isFullBinaryTree(Tree)
    /\ \A n \in Reachable(Tree) : IsLeaf(Tree, n) \/ IsInternal(Tree, n)

\* a remove has just deleted a pair of leaves below a tree that still has
\* internal nodes
C1_Witness ==
    /\ last.op = "remove"
    /\ last.branch \in {"leaf", "internal"}
    /\ \E n \in Reachable(Tree) : IsInternal(Tree, n)

\* C2: after every completed call the stored size equals the number of
\* nodes reachable from the root.
C2_SizeIsNodeCount == getSize(Tree) = Cardinality(Reachable(Tree))

\* C3: a remove whose target is a leaf with a parent makes exactly the
\* target and its sibling unreachable and lowers size by 2; a remove whose
\* target is the sole root removes that one node and leaves size 0.
C3_LeafRemoval ==
    /\ (last.op = "remove" /\ last.branch = "leaf") =>
          LET target == FirstOf(pre, Holders(pre, last.arg)) IN
          /\ Reachable(pre) \ Reachable(Tree) = {target, SiblingOf(pre, target)}
          /\ Reachable(Tree) \subseteq Reachable(pre)
          /\ size = pre.size - 2
    /\ (last.op = "remove" /\ last.branch = "soleroot") =>
          /\ Cardinality(Reachable(pre)) = 1
          /\ root = NULL
          /\ Reachable(Tree) = {}
          /\ size = 0

\* C4: a remove whose target is an internal node keeps the target in place,
\* overwrites its value with the value of the last leaf in level order,
\* deletes that leaf and its sibling, lowers size by 2 and changes no other
\* node.
C4_InternalRemoval ==
    (last.op = "remove" /\ last.branch = "internal") =>
        LET target == FirstOf(pre, Holders(pre, last.arg))
            leaf   == LastOf(pre, Leaves(pre))
            pair   == {leaf, SiblingOf(pre, leaf)}
        IN /\ IsInternal(pre, target)
           /\ root = pre.root
           /\ target \in Reachable(Tree)
           /\ PosOf(Tree, target) = PosOf(pre, target)
           /\ nodes[target].data = pre.nodes[leaf].data
           /\ Reachable(Tree) = Reachable(pre) \ pair
           /\ Cardinality(pair) = 2
           /\ pair \cap DOMAIN nodes = {}
           /\ size = pre.size - 2
           /\ \A n \in Reachable(Tree) :
                 /\ PosOf(Tree, n) = PosOf(pre, n)
                 /\ n # target => nodes[n].data = pre.nodes[n].data

\* an internal node other than the parent of the last leaf was the target,
\* and the value it received differs from the one it held
C4_Witness ==
    /\ last.op = "remove"
    /\ last.branch = "internal"
    /\ LET target == FirstOf(pre, Holders(pre, last.arg)) IN
       /\ target \in Reachable(Tree)
       /\ IsInternal(Tree, target)
       /\ nodes[target].data # last.arg

\* C5: remove of a value no node holds (the empty tree included) changes
\* nothing: root, the nodes and their values, size and the result of
\* isFullBinaryTree() are as before.
C5_RemoveAbsentIsNoOp ==
    (last.op = "remove" /\ ~Contains(pre, last.arg)) =>
        /\ root = pre.root
        /\ nodes = pre.nodes
        /\ size = pre.size
        /\ Shape(Tree) = Shape(pre)
        /\ isFullBinaryTree(Tree) = isFullBinaryTree(pre)

\* remove of an absent value from a tree with at least three nodes
C5_Witness ==
    /\ last.op = "remove"
    /\ ~Contains(pre, last.arg)
    /\ Cardinality(Reachable(pre)) >= 3

\* C6: after remove(v) on a tree that contains v, find(v) is false.
C6_RemovedValueNotFound ==
    (last.op = "remove" /\ Contains(pre, last.arg)) => ~find(Tree, last.arg)

\* C7: there is a tree built by inserts alone and a value v in it such that
\* find(v) is still true right after remove(v).  Checked as: on a tree built
\* by inserts alone, whenever the target is internal and the last leaf in
\* level order holds v, or some node that survives the call other than the
\* target holds v, find(v) is true after remove(v).
C7_FindStillTrue ==
    (last.op = "remove" /\ pre.inserts >= 1 /\ Contains(pre, last.arg)) =>
        LET target == FirstOf(pre, Holders(pre, last.arg)) IN
        /\ (last.branch = "internal"
            /\ pre.nodes[LastOf(pre, Leaves(pre))].data = last.arg) => find(Tree, last.arg)
        /\ (\E n \in Reachable(Tree) \ {target} : pre.nodes[n].data = last.arg)
              => find(Tree, last.arg)

\* remove(v) on a tree built by inserts alone, in which only the root and
\* the last pair of leaves hold v, and find(v) still true afterwards
C7_Witness ==
    /\ last.op = "remove"
    /\ pre.inserts >= 1
    /\ last.branch = "internal"
    /\ Holders(pre, last.arg) =
          {pre.root, LastOf(pre, Leaves(pre)), SiblingOf(pre, LastOf(pre, Leaves(pre)))}
    /\ find(Tree, last.arg)

\* C8: insert on a non-empty tree gives the first childless node in level
\* order two new leaf children holding the value, raises size by 2 and
\* leaves every other node's value and place alone; insert on an empty tree
\* creates a single childless root with size 1.
C8_InsertAttachesPair ==
    last.op = "insert" =>
        IF pre.root = NULL
        THEN /\ root # NULL
             /\ nodes[root] = Node(last.arg)
             /\ Reachable(Tree) = {root}
             /\ size = 1
        ELSE LET first == FirstOf(pre, Leaves(pre))
                 l     == nodes[first].left
                 r     == nodes[first].right
             IN /\ root = pre.root
                /\ l # NULL /\ r # NULL /\ l # r
                /\ {l, r} \cap DOMAIN pre.nodes = {}
                /\ nodes[l] = Node(last.arg)
                /\ nodes[r] = Node(last.arg)
                /\ Reachable(Tree) = Reachable(pre) \cup {l, r}
                /\ size = pre.size + 2
                /\ \A n \in Reachable(pre) :
                      /\ nodes[n].data = pre.nodes[n].data
                      /\ PosOf(Tree, n) = PosOf(pre, n)
                      /\ n # first => nodes[n] = pre.nodes[n]

\* an insert into a tree whose first childless node is not the first leaf a
\* depth-first walk meets (the left subtree is deeper than the right leaf)
C8_Witness ==
    /\ last.op = "insert"
    /\ pre.root # NULL
    /\ IsInternal(pre, pre.root)
    /\ IsInternal(pre, pre.nodes[pre.root].left)
    /\ IsLeaf(pre, pre.nodes[pre.root].right)
    /\ IsInternal(Tree, pre.nodes[pre.root].right)

\* C9: after k inserts on a new tree and nothing else, size is 0 for k = 0
\* and 2k - 1 for k >= 1.
C9_SizeLaw ==
    /\ InsertCalls = 0 => size = 0
    /\ InsertCalls >= 1 => size = 2 * InsertCalls - 1

\* four inserts, the last one of a value already in the tree
C9_Witness ==
    /\ InsertCalls = 4
    /\ Contains(pre, last.arg)

\* C10: right after insert(v), find(v) is true.
C10_InsertThenFind == last.op = "insert" => find(Tree, last.arg)

\* insert of a value that was absent, into a tree of at least three nodes
C10_Witness ==
    /\ last.op = "insert"
    /\ ~Contains(pre, last.arg)
    /\ Cardinality(Reachable(pre)) >= 3
    /\ find(Tree, last.arg)

\* C11: remove(v) on a tree that contains v strictly lowers size: by 2 when
\* the level-order target has a parent or is internal, to 0 when the target
\* is the sole root.
C11_RemoveLowersSize ==
    (last.op = "remove" /\ Contains(pre, last.arg)) =>
        LET target == FirstOf(pre, Holders(pre, last.arg)) IN
        /\ size < pre.size
        /\ (target # pre.root \/ IsInternal(pre, target)) => size = pre.size - 2
        /\ (target = pre.root /\ IsLeaf(pre, target)) => size = 0

\* the removed value sat in an internal node below the root
C11_Witness ==
    /\ last.op = "remove"
    /\ Contains(pre, last.arg)
    /\ LET target == FirstOf(pre, Holders(pre, last.arg)) IN
       target # pre.root /\ IsInternal(pre, target)
    /\ size = pre.size - 2

\* ---- binary serialization ------------------------------------------------

SizeOfSizeT == 8              \* sizeof(size)
SizeOfT == 4                  \* sizeof(T) for T = int
SizeOfBool == 1               \* sizeof(is_null)

\* the object representation of an unsigned integer, low byte first
RECURSIVE ToBytes(_, _)
ToBytes(v, width) ==
    IF width = 0 THEN <<>> ELSE <<v % 256>> \o ToBytes(v \div 256, width - 1)

\* the integer with that object representation; every integer of 2^24 and
\* more is represented by 2^24
RECURSIVE FromBytes(_)
FromBytes(bytes) ==
    IF bytes = <<>> THEN 0
    ELSE LET high == FromBytes(Tail(bytes)) IN
         IF high >= 65536 THEN 16777216 ELSE bytes[1] + 256 * high

\* an input stream: the bytes (or tokens) not yet consumed and the fail bit
IStream(buf) == [buf |-> buf, fail |-> FALSE]

\* in.read(dst, n): a short or failed read sets the fail bit, leaves dst
\* as it was and makes every later read fail
read(in, n) ==
    IF in.fail \/ Len(in.buf) < n
    THEN [ok |-> FALSE, bytes |-> <<>>, in |-> [buf |-> <<>>, fail |-> TRUE]]
    ELSE [ok |-> TRUE, bytes |-> SubSeq(in.buf, 1, n),
          in |-> [buf |-> SubSeq(in.buf, n + 1, Len(in.buf)), fail |-> FALSE]]

\* what an uninitialized local holds when the read into it fails
Garbage == [null : BOOLEAN, value : Values, size : {0, 1, MaxNodes}]

\* serializeBinaryHelper that writes nothing for an absent child
RECURSIVE serializeBinaryHelper_NoNullMark(_, _)
serializeBinaryHelper_NoNullMark(h, node) ==
    IF node = NULL THEN <<>>
    ELSE <<0>> \o ToBytes(h[node].data, SizeOfT)
         \o serializeBinaryHelper_NoNullMark(h, h[node].left)
         \o serializeBinaryHelper_NoNullMark(h, h[node].right)

RECURSIVE serializeBinaryHelper(_, _)
serializeBinaryHelper(h, node) ==
    IF node = NULL THEN ToBytes(1, SizeOfBool)
    ELSE ToBytes(0, SizeOfBool) \o ToBytes(h[node].data, SizeOfT)
         \o serializeBinaryHelper(h, h[node].left)
         \o serializeBinaryHelper(h, h[node].right)

serializeBinary(t) == ToBytes(t.size, SizeOfSizeT) \o serializeBinaryHelper(t.nodes, t.root)

\* result of a deserialize helper: the subtree built, the heap, the stream
\* after it, and whether an exception (std::bad_alloc) left the call
Built(node, h, in, thrown) == [node |-> node, nodes |-> h, in |-> in, thrown |-> thrown]

RECURSIVE deserializeBinaryHelper(_, _, _)
deserializeBinaryHelper(h, in, g) ==
    LET rn      == read(in, SizeOfBool)
        is_null == IF rn.ok THEN FromBytes(rn.bytes) # 0 ELSE g.null
    IN IF is_null THEN Built(NULL, h, rn.in, FALSE)
       ELSE LET rv    == read(rn.in, SizeOfT)
                value == IF rv.ok THEN FromBytes(rv.bytes) ELSE g.value
            IN IF NodeIds \ DOMAIN h = {} THEN Built(NULL, h, rv.in, TRUE)
               ELSE LET node == NewId(h)
                        l    == deserializeBinaryHelper(New(h, node, value), rv.in, g)
                    IN IF l.thrown THEN Built(NULL, l.nodes, l.in, TRUE)
                       ELSE LET r == deserializeBinaryHelper(
                                        [l.nodes EXCEPT ![node].left = l.node], l.in, g)
                            IN IF r.thrown THEN Built(NULL, r.nodes, r.in, TRUE)
                               ELSE Built(node, [r.nodes EXCEPT ![node].right = r.node],
                                          r.in, FALSE)

\* the tree after deserializeBinary(in), and whether the call threw
deserializeBinary(t, in, g) ==
    LET c        == clear(t)
        rs       == read(in, SizeOfSizeT)
        new_size == IF rs.ok THEN FromBytes(rs.bytes) ELSE g.size
        b        == deserializeBinaryHelper(c.nodes, rs.in, g)
    IN [root |-> b.node, nodes |-> b.nodes, size |-> new_size, thrown |-> b.thrown]

\* a newly constructed tree in a heap of its own
FreshTree == [root |-> NULL, nodes |-> << >>, size |-> 0]

Digits == <<"0", "1", "2", "3", "4", "5", "6", "7", "8", "9">>

IsDigit(c) == \E d \in 1..10 : Digits[d] = c

DigitValue(c) == (CHOOSE d \in 1..10 : Digits[d] = c) - 1

IsSpace(c) == c \in {" ", "\n"}

NullToken == <<"n", "u", "l", "l">>

\* out << n for an unsigned integer
RECURSIVE Decimal(_)
Decimal(n) ==
    IF n < 10 THEN <<Digits[n + 1]>> ELSE Decimal(n \div 10) \o <<Digits[(n % 10) + 1]>>

\* out << value
PrintValue(T, value) ==
    IF T = "int" THEN Decimal(value)
    ELSE IF value = 1 THEN NullToken ELSE <<"s">> \o Decimal(value)

RECURSIVE SkipSpace(_)
SkipSpace(buf) ==
    IF buf # <<>> /\ IsSpace(buf[1]) THEN SkipSpace(Tail(buf)) ELSE buf

\* length of the longest prefix of buf made of digits
RECURSIVE DigitPrefixLen(_)
DigitPrefixLen(buf) ==
    IF buf # <<>> /\ IsDigit(buf[1]) THEN 1 + DigitPrefixLen(Tail(buf)) ELSE 0

\* length of the longest prefix of buf free of white space
RECURSIVE TokenLen(_)
TokenLen(buf) ==
    IF buf # <<>> /\ ~IsSpace(buf[1]) THEN 1 + TokenLen(Tail(buf)) ELSE 0

RECURSIVE DigitsValue(_, _)
DigitsValue(chars, acc) ==
    IF chars = <<>> THEN acc ELSE DigitsValue(Tail(chars), 10 * acc + DigitValue(chars[1]))

\* in >> n for an unsigned integer n holding garbage: n is left alone when
\* the stream has failed or ends before a character is found, and zero is
\* stored when the character found is not a digit
ReadUnsigned(in, garbage) ==
    LET buf == SkipSpace(in.buf)
        k   == DigitPrefixLen(buf)
    IN IF in.fail \/ buf = <<>>
       THEN [ok |-> FALSE, value |-> garbage, in |-> [buf |-> <<>>, fail |-> TRUE]]
       ELSE IF k = 0
       THEN [ok |-> FALSE, value |-> 0, in |-> [buf |-> buf, fail |-> TRUE]]
       ELSE [ok |-> TRUE, value |-> DigitsValue(SubSeq(buf, 1, k), 0),
             in |-> [buf |-> SubSeq(buf, k + 1, Len(buf)), fail |-> FALSE]]

\* in >> token for a std::string
ReadToken(in) ==
    LET buf == SkipSpace(in.buf)
        k   == TokenLen(buf)
    IN IF in.fail \/ k = 0
       THEN [ok |-> FALSE, token |-> <<>>, in |-> [buf |-> <<>>, fail |-> TRUE]]
       ELSE [ok |-> TRUE, token |-> SubSeq(buf, 1, k),
             in |-> [buf |-> SubSeq(buf, k + 1, Len(buf)), fail |-> FALSE]]

\* std::istringstream iss(token); T value; iss >> value;
\* 0 stands for a value outside Values (for int, what a failed read stores)
ParseValue(T, token) ==
    IF T = "int"
    THEN DigitsValue(SubSeq(token, 1, DigitPrefixLen(token)), 0)
    ELSE IF \E v \in Values : PrintValue(T, v) = token
         THEN CHOOSE v \in Values : PrintValue(T, v) = token
         ELSE 0

\* serializeHelper that writes one null token below a leaf, not two
RECURSIVE serializeHelper_OneNullPerLeaf(_, _, _)
serializeHelper_OneNullPerLeaf(T, h, node) ==
    IF node = NULL THEN NullToken \o <<" ">>
    ELSE IF h[node].left = NULL /\ h[node].right = NULL
    THEN PrintValue(T, h[node].data) \o <<" ">> \o NullToken \o <<" ">>
    ELSE PrintValue(T, h[node].data) \o <<" ">>
         \o serializeHelper_OneNullPerLeaf(T, h, h[node].left)
         \o serializeHelper_OneNullPerLeaf(T, h, h[node].right)

RECURSIVE serializeHelper(_, _, _)
serializeHelper(T, h, node) ==
    IF node = NULL THEN NullToken \o <<" ">>
    ELSE PrintValue(T, h[node].data) \o <<" ">>
         \o serializeHelper(T, h, h[node].left)
         \o serializeHelper(T, h, h[node].right)

serializeText(T, t) ==
    Decimal(t.size) \o <<"\n">> \o serializeHelper(T, t.nodes, t.root) \o <<"\n">>

RECURSIVE deserializeHelper(_, _, _)
deserializeHelper(T, h, in) ==
    LET rt == ReadToken(in) IN
    IF ~rt.ok \/ rt.token = NullToken THEN Built(NULL, h, rt.in, FALSE)
    ELSE IF NodeIds \ DOMAIN h = {} THEN Built(NULL, h, rt.in, TRUE)
    ELSE LET node == NewId(h)
             l    == deserializeHelper(T, New(h, node, ParseValue(T, rt.token)), rt.in)
         IN IF l.thrown THEN Built(NULL, l.nodes, l.in, TRUE)
            ELSE LET r == deserializeHelper(T, [l.nodes EXCEPT ![node].left = l.node], l.in)
                 IN IF r.thrown THEN Built(NULL, r.nodes, r.in, TRUE)
                    ELSE Built(node, [r.nodes EXCEPT ![node].right = r.node], r.in, FALSE)

\* deserializeText that does not clear the target first
deserializeText_NoClear(T, t, in, g) ==
    LET rs == ReadUnsigned(in, g.size)
        b  == deserializeHelper(T, t.nodes, rs.in)
    IN [root |-> b.node, nodes |-> b.nodes, size |-> rs.value, thrown |-> b.thrown]

\* the tree after deserializeText(in), and whether the call threw
deserializeText(T, t, in, g) ==
    LET c  == clear(t)
        rs == ReadUnsigned(in, g.size)
        b  == deserializeHelper(T, c.nodes, rs.in)
    IN [root |-> b.node, nodes |-> b.nodes, size |-> rs.value, thrown |-> b.thrown]

\* decoding the text serialization of the current tree into a fresh tree
\* gives the same shape and values, size, fullness and find results
TextRoundTrip(T) ==
    \A g \in Garbage :
        LET t2 == deserializeText(T, FreshTree, IStream(serializeText(T, Tree)), g) IN
        /\ ~t2.thrown
        /\ Shape(t2) = Shape(Tree)
        /\ getSize(t2) = getSize(Tree)
        /\ isFullBinaryTree(t2)
        /\ \A v \in Values : find(t2, v) = find(Tree, v)

\* C13: the text round trip holds for every reachable tree and every value
\* type printed as one token, a value printed as the token null included.
C13_TextRoundTrip == TextRoundTrip("int") /\ TextRoundTrip("string")

\* ---- deserialization of arbitrary streams -------------------------------

MaxTokens == 3                \* records or tokens after the header of a stream
MaxCut == 1                   \* bytes missing at the end of a binary stream
MaxTargetNodes == 3           \* nodes of the tree a stream is decoded into

\* all sequences over alphabet of length at most n
SeqsUpTo(alphabet, n) == UNION {[1..k -> alphabet] : k \in 0..n}

\* a stream handed to a deserializer: an optional size header, then records
\* (0 is the null marker, a value v > 0 a node record, -1 a token that is
\* neither), with the last cut bytes of the binary form missing
StreamInputs ==
    [header : {-1, 0, 1, 3}, records : SeqsUpTo({-1, 0, 2}, MaxTokens), cut : {0}]

BinaryInputs ==
    [header : {-1, 0, 1, 3}, records : SeqsUpTo({0, 2}, MaxTokens), cut : 0..MaxCut]

RECURSIVE TextRecords(_)
TextRecords(records) ==
    IF records = <<>> THEN <<>>
    ELSE (IF records[1] = 0 THEN NullToken
          ELSE IF records[1] = -1 THEN <<"x">>
          ELSE PrintValue("int", records[1])) \o <<" ">> \o TextRecords(Tail(records))

TextOf(input) ==
    (IF input.header = -1 THEN <<>> ELSE Decimal(input.header) \o <<"\n">>)
    \o TextRecords(input.records)

RECURSIVE BinaryRecords(_)
BinaryRecords(records) ==
    IF records = <<>> THEN <<>>
    ELSE (IF records[1] = 0 THEN ToBytes(1, SizeOfBool)
          ELSE ToBytes(0, SizeOfBool) \o ToBytes(records[1], SizeOfT))
         \o BinaryRecords(Tail(records))

BinaryOf(input) ==
    LET bytes == (IF input.header = -1 THEN <<>> ELSE ToBytes(input.header, SizeOfSizeT))
                 \o BinaryRecords(input.records)
    IN SubSeq(bytes, 1, IF Len(bytes) > input.cut THEN Len(bytes) - input.cut ELSE 0)

\* the tree that is going to be the target of a deserialization is built
InsertTarget(value) ==
    /\ last.op \in {"new", "insert"}
    /\ Cardinality(DOMAIN nodes) + 2 <= MaxTargetNodes
    /\ Insert(value)

DeserializeText(input, g) ==
    LET t2 == deserializeText("int", Tree, IStream(TextOf(input)), g) IN
    /\ last.op \in {"new", "insert"}
    /\ Apply(t2)
    /\ Snapshot("deserializeText", input, IF t2.thrown THEN "thrown" ELSE "returned")

DeserializeBinary(input, g) ==
    LET t2 == deserializeBinary(Tree, IStream(BinaryOf(input)), g) IN
    /\ last.op \in {"new", "insert"}
    /\ Apply(t2)
    /\ Snapshot("deserializeBinary", input, IF t2.thrown THEN "thrown" ELSE "returned")

NextStream ==
    \/ \E value \in Values : InsertTarget(value)
    \/ \E input \in StreamInputs, g \in Garbage : DeserializeText(input, g)
    \/ \E input \in BinaryInputs, g \in Garbage : DeserializeBinary(input, g)

SpecStream == Init /\ [][NextStream]_vars

\* ---- what a stream is, independent of the decoders -----------------------

Deserialized == last.op \in {"deserializeText", "deserializeBinary"}

\* index of the record that completes the preorder encoding of one tree
\* when open subtrees are still expected before record i; -1 when the
\* records end first
RECURSIVE TreeEnd(_, _, _)
TreeEnd(records, i, open) ==
    IF open = 0 THEN i - 1
    ELSE IF i > Len(records) THEN -1
    ELSE TreeEnd(records, i + 1, IF records[i] = 0 THEN open - 1 ELSE open + 1)

\* the stream lacks its header, ends before every subtree record is there,
\* or holds a token that is neither a value nor null
Malformed(input) ==
    LET end == TreeEnd(input.records, 1, 1) IN
    \/ input.header = -1
    \/ end = -1
    \/ \E i \in 1..end : input.records[i] = -1
    \/ /\ input.cut > 0
       /\ SizeOfSizeT + Len(BinaryRecords(SubSeq(input.records, 1, end)))
             > Len(BinaryOf(input))

\* C14: when deserialization fails on a truncated or invalid stream the
\* target tree ends cleared: no root and size 0.
C14_FailureLeavesCleared ==
    (Deserialized /\ (Malformed(last.arg) \/ last.branch = "thrown")) =>
        root = NULL /\ size = 0

\* C15: deserializing a truncated or invalid stream always ends in a failure
\* the caller sees; it never completes as if it had succeeded.
C15_MalformedIsReported ==
    (Deserialized /\ Malformed(last.arg)) => last.branch = "thrown"

\* C16: after a deserialization that completes without reporting a failure,
\* size is the number of reachable nodes and every node has 0 or 2 children.
C16_DecodedTreeIsValid ==
    (Deserialized /\ last.branch = "returned") =>
        /\ size = Cardinality(Reachable(Tree))
        /\ \A n \in Reachable(Tree) : IsLeaf(Tree, n) \/ IsInternal(Tree, n)

\* ---- copy construction and assignment ------------------------------------

\* result of copyTree: the copy, the heap, and whether std::bad_alloc left
\* the call (operator new finds no free cell)
Copied(node, h, thrown) == [node |-> node, nodes |-> h, thrown |-> thrown]

\* copyTree that returns the node it was given (a shallow copy)
copyTree_Shallow(h, node) == Copied(node, h, FALSE)

RECURSIVE copyTree(_, _)
copyTree(h, node) ==
    IF node = NULL THEN Copied(NULL, h, FALSE)
    ELSE IF NodeIds \ DOMAIN h = {} THEN Copied(NULL, h, TRUE)
    ELSE LET newNode == NewId(h)
             l       == copyTree(New(h, newNode, h[node].data), h[node].left)
         IN IF l.thrown THEN Copied(NULL, l.nodes, TRUE)
            ELSE LET r == copyTree([l.nodes EXCEPT ![newNode].left = l.node], h[node].right)
                 IN IF r.thrown THEN Copied(NULL, r.nodes, TRUE)
                    ELSE Copied(newNode, [r.nodes EXCEPT ![newNode].right = r.node], FALSE)

\* FullBinaryTree(const FullBinaryTree& src): the new object, or no object
\* when copyTree throws
copyConstruct(src) ==
    LET c == copyTree(src.nodes, src.root) IN
    IF c.thrown THEN [root |-> NULL, nodes |-> c.nodes, size |-> 0, thrown |-> TRUE]
    ELSE [root |-> c.node, nodes |-> c.nodes, size |-> src.size, thrown |-> FALSE]

\* operator= that frees the old nodes before it copies the source
assign_ClearFirst(t, src, same) ==
    IF same THEN [root |-> t.root, nodes |-> t.nodes, size |-> t.size, thrown |-> FALSE]
    ELSE LET cl == clear(t)
             c  == copyTree(cl.nodes, src.root)
         IN IF c.thrown
            THEN [root |-> NULL, nodes |-> c.nodes, size |-> 0, thrown |-> TRUE]
            ELSE [root |-> c.node, nodes |-> c.nodes, size |-> src.size, thrown |-> FALSE]

\* operator= without the test this != &other: in t = t the copy is made,
\* clear() empties the object and the size copied back is the cleared one
assign_NoSelfTest(t, src, same) ==
    LET c == copyTree(t.nodes, src.root) IN
    IF c.thrown
    THEN [root |-> t.root, nodes |-> c.nodes, size |-> t.size, thrown |-> TRUE]
    ELSE LET cl == clear([root |-> t.root, nodes |-> c.nodes, size |-> t.size]) IN
         [root |-> c.node, nodes |-> cl.nodes, thrown |-> FALSE,
          size |-> IF same THEN cl.size ELSE src.size]

\* t = src (operator=); same tells that src is the object t itself
assign(t, src, same) ==
    IF same THEN [root |-> t.root, nodes |-> t.nodes, size |-> t.size, thrown |-> FALSE]
    ELSE LET c == copyTree(t.nodes, src.root) IN
         IF c.thrown
         THEN [root |-> t.root, nodes |-> c.nodes, size |-> t.size, thrown |-> TRUE]
         ELSE LET cl == clear([root |-> t.root, nodes |-> c.nodes, size |-> t.size]) IN
              [root |-> c.node, nodes |-> cl.nodes, size |-> src.size, thrown |-> FALSE]

OtherTree == [root |-> other.root, nodes |-> nodes, size |-> other.size]

ApplyOther(t) ==
    /\ other' = [root |-> t.root, size |-> t.size]
    /\ nodes' = t.nodes
    /\ UNCHANGED <<root, size>>

\* The two trees are built by inserts, the first tree before the other one;
\* then one copy or assignment is made, and one more call follows on either
\* tree.
Building == InsertCalls >= 0 \/ last.op = "buildOther"

Copying == last.op \in {"copy", "assign"}

BuildSource(value) ==
    /\ InsertCalls >= 0
    /\ Cardinality(DOMAIN nodes) + 2 <= MaxTargetNodes
    /\ Insert(value)

BuildOther(value) ==
    /\ Building
    /\ Cardinality(Reachable(OtherTree)) + 2 <= MaxTargetNodes
    /\ Cardinality(DOMAIN nodes) + 2 <= MaxNodes
    /\ ApplyOther(insert(OtherTree, value))
    /\ Snapshot("buildOther", value, IF other.root = NULL THEN "root" ELSE "pair")

\* FullBinaryTree other(tree), where no object other exists yet
CopyConstruct ==
    /\ Building
    /\ other.root = NULL
    /\ LET t2 == copyConstruct(Tree) IN
       /\ ApplyOther(t2)
       /\ Snapshot("copy", 0, IF t2.thrown THEN "thrown" ELSE "returned")

\* other = tree
Assign ==
    LET t2 == assign(OtherTree, Tree, FALSE) IN
    /\ Building
    /\ ApplyOther(t2)
    /\ Snapshot("assign", 0, IF t2.thrown THEN "thrown" ELSE "returned")

\* tree = tree
SelfAssign ==
    /\ Building
    /\ Apply(assign(Tree, Tree, TRUE))
    /\ Snapshot("selfAssign", 0, "returned")

InsertAfter(value) == Copying /\ Insert(value)

RemoveAfter(value) == Copying /\ Remove(value)

ClearAfter == Copying /\ Clear

InsertOther(value) ==
    /\ Copying
    /\ Cardinality(DOMAIN nodes) + 2 <= MaxNodes
    /\ ApplyOther(insert(OtherTree, value))
    /\ Snapshot("insertOther", value, IF other.root = NULL THEN "root" ELSE "pair")

RemoveOther(value) ==
    /\ Copying
    /\ ApplyOther(remove(OtherTree, value))
    /\ Snapshot("removeOther", value, removeBranch(OtherTree, value))

ClearOther ==
    /\ Copying
    /\ ApplyOther(clear(OtherTree))
    /\ Snapshot("clearOther", 0, "none")

NextCopy ==
    \/ \E value \in Values : BuildSource(value)
    \/ \E value \in Values : BuildOther(value)
    \/ CopyConstruct
    \/ Assign
    \/ SelfAssign
    \/ \E value \in Values : InsertAfter(value)
    \/ \E value \in Values : RemoveAfter(value)
    \/ ClearAfter
    \/ \E value \in Values : InsertOther(value)
    \/ \E value \in Values : RemoveOther(value)
    \/ ClearOther

SpecCopy == Init /\ [][NextCopy]_vars


\* ---- claims about copies ---------------------------------------------------

PreTree == [root |-> pre.root, nodes |-> pre.nodes, size |-> pre.size]

PreOther == [root |-> pre.other.root, nodes |-> pre.nodes, size |-> pre.other.size]

OnTree == last.op \in {"insert", "remove", "clear"}

OnOther == last.op \in {"buildOther", "insertOther", "removeOther", "clearOther"}

\* C17: a copy constructed or assigned from a tree has the shape, the values
\* and the size of the source and shares no node with it; an insert, remove
\* or clear on one of the two trees leaves the shape, the values and the size
\* of the other tree as they were.
C17_CopyIsDeep ==
    /\ (Copying /\ last.branch = "returned") =>
          /\ Shape(OtherTree) = Shape(Tree)
          /\ other.size = size
          /\ Reachable(OtherTree) \cap Reachable(Tree) = {}
          /\ Shape(Tree) = Shape(PreTree) /\ size = pre.size
    /\ OnTree => (Shape(OtherTree) = Shape(PreOther) /\ other.size = pre.other.size)
    /\ OnOther => (Shape(Tree) = Shape(PreTree) /\ size = pre.size)

\* a value was removed from a three-node copy and the source kept its nodes
C17_Witness ==
    /\ last.op = "removeOther"
    /\ Shape(PreOther) = Shape(PreTree)
    /\ Cardinality(Reachable(PreTree)) = 3
    /\ Shape(OtherTree) # Shape(PreOther)
    /\ Shape(Tree) = Shape(PreTree)

\* C18: an assignment whose copy fails leaves the assigned-to tree with the
\* root, shape, values and size it had; one that succeeds builds the copy in
\* cells that were free while the previous nodes still existed, frees every
\* previous node, and leaves root and size those of the copy.
C18_AssignAllOrNothing ==
    /\ (last.op = "assign" /\ last.branch = "thrown") =>
          /\ other.root = pre.other.root
          /\ other.size = pre.other.size
          /\ Shape(OtherTree) = Shape(PreOther)
          /\ \A n \in Reachable(PreOther) : n \in DOMAIN nodes /\ nodes[n] = pre.nodes[n]
    /\ (last.op = "assign" /\ last.branch = "returned") =>
          /\ Reachable(OtherTree) \cap DOMAIN pre.nodes = {}
          /\ Reachable(PreOther) \cap DOMAIN nodes = {}
          /\ Shape(OtherTree) = Shape(Tree)
          /\ other.size = size
    /\ last.op = "selfAssign" => (Tree = PreTree /\ other = pre.other)

\* the copy of a three-node source failed for want of memory while the
\* assigned-to tree held three nodes
C18_Witness ==
    /\ last.op = "assign"
    /\ last.branch = "thrown"
    /\ Cardinality(Reachable(PreOther)) = 3
    /\ Cardinality(Reachable(Tree)) = 3
    /\ Shape(OtherTree) = Shape(PreOther)
    /\ Shape(OtherTree) # Shape(Tree)


\* ---- claims about empty trees ---------------------------------------------

Empty(t) ==
    /\ t.root = NULL
    /\ getSize(t) = 0
    /\ isEmpty(t)
    /\ isFullBinaryTree(t)
    /\ \A v \in Values : ~find(t, v)

SingleRoot(t, v) ==
    /\ t.root # NULL
    /\ Shape(t) = {<<1, v>>}
    /\ getSize(t) = 1

\* C19: clear, from whatever state it is called in, leaves root absent,
\* size 0, isEmpty true, isFullBinaryTree true and find false for every
\* value; the insert that follows a clear creates a single root, size 1.
C19_ClearEmpties ==
    /\ [](last.op = "clear" => Empty(Tree))
    /\ [][(last.op = "clear" /\ last'.op = "insert") => SingleRoot(Tree', last'.arg)]_vars

\* a tree of three nodes or more was cleared
C19_Witness ==
    /\ last.op = "clear"
    /\ Cardinality(Reachable(PreTree)) >= 3
    /\ Empty(Tree)

\* C20: a newly constructed tree has size 0, isEmpty true, isFullBinaryTree
\* true and find false for every value.
C20_NewTreeIsEmpty == last.op = "new" => Empty(Tree)

\* the tree as its constructor left it, no call made yet
C20_Witness ==
    /\ last.op = "new"
    /\ InsertCalls = 0
    /\ Empty(Tree)
    /\ DOMAIN nodes = {}


\* ---- claims about insert sequences ----------------------------------------

\* the trees of the test scenario insert(10), insert(20), insert(30)
After10 == insert(FreshTree, 10)

After20 == insert(After10, 20)

After30 == insert(After20, 30)

\* C21: from the empty tree, insert(10), insert(20), insert(30) give root 10
\* with size 1, then root 10 with two children 20 and size 3, then root 10
\* whose left child 20 has two children 30 and whose right child is 20, with
\* size 5; isFullBinaryTree is true after each, and at the end find(30) is
\* true and find(99) is false.  The same holds of any three first inserts.
C21_ThreeInserts ==
    /\ Shape(After10) = {<<1, 10>>} /\ getSize(After10) = 1 /\ isFullBinaryTree(After10)
    /\ Shape(After20) = {<<1, 10>>, <<2, 20>>, <<3, 20>>}
    /\ getSize(After20) = 3 /\ isFullBinaryTree(After20)
    /\ Shape(After30) = {<<1, 10>>, <<2, 20>>, <<3, 20>>, <<4, 30>>, <<5, 30>>}
    /\ getSize(After30) = 5 /\ isFullBinaryTree(After30)
    /\ find(After30, 30) /\ ~find(After30, 99)
    /\ InsertCalls = 1 =>
          Shape(Tree) = {<<1, last.arg>>} /\ size = 1 /\ isFullBinaryTree(Tree)
    /\ InsertCalls = 2 =>
          /\ Shape(Tree) = Shape(PreTree) \cup {<<2, last.arg>>, <<3, last.arg>>}
          /\ size = 3 /\ isFullBinaryTree(Tree)
    /\ InsertCalls = 3 =>
          /\ Shape(Tree) = Shape(PreTree) \cup {<<4, last.arg>>, <<5, last.arg>>}
          /\ size = 5 /\ isFullBinaryTree(Tree)
          /\ find(Tree, last.arg)
          /\ \A v \in (Values \cup {MaxValue + 1}) \ {x[2] : x \in Shape(Tree)} : ~find(Tree, v)

\* three different values were inserted into the empty tree
C21_Witness ==
    /\ InsertCalls = 3
    /\ \E a, b, c \in Values :
          /\ a # b /\ b # c /\ a # c
          /\ Shape(Tree) = {<<1, a>>, <<2, b>>, <<3, b>>, <<4, c>>, <<5, c>>}
    /\ size = 5


\* every pointer of the tree leads to an allocated node, and no node is
\* reached along two paths
WellFormed(t) ==
    /\ t.root \in DOMAIN t.nodes \cup {NULL}
    /\ \A n \in DOMAIN t.nodes :
          {t.nodes[n].left, t.nodes[n].right} \subseteq DOMAIN t.nodes \cup {NULL}
    /\ Cardinality(Places(t)) = Cardinality(Reachable(t))

\* C22: insert, remove and clear complete on every reachable tree and leave
\* a tree without dangling pointers; the scan of insert on a non-empty tree
\* finds a childless node, so every insert adds nodes; remove never meets a
\* target with a single child.
C22_CallsComplete ==
    /\ WellFormed(Tree)
    /\ last.op = "insert" =>
          /\ pre.root # NULL => InsertScan(pre.nodes, <<pre.root>>) \in Leaves(PreTree)
          /\ Reachable(PreTree) \subseteq Reachable(Tree)
          /\ Reachable(Tree) # Reachable(PreTree)
          /\ size > pre.size
    /\ last.op = "remove" =>
          last.branch \in {"empty", "notfound", "soleroot", "leaf", "internal"}
    /\ last.op = "clear" => root = NULL

\* an insert into a tree of three nodes or more that removes had reshaped
C22_Witness ==
    /\ last.op = "insert"
    /\ InsertCalls = -1
    /\ Cardinality(Reachable(PreTree)) >= 3
    /\ DOMAIN pre.nodes # Reachable(PreTree)
    /\ Cardinality(Reachable(Tree)) = Cardinality(Reachable(PreTree)) + 2


\* floor(log2(n)) for n >= 1: the depth of position n
RECURSIVE Log2(_)
Log2(n) == IF n <= 1 THEN 0 ELSE 1 + Log2(n \div 2)

Positions(t) == {x[1] : x \in Places(t)}

\* C23: while only inserts have been called, the tree is filled level by
\* level: its nodes occupy the level-order positions 1..size, the internal
\* nodes are the first (size-1)/2 of them, the depths of two leaves differ
\* by at most 1 and the height is floor(log2(size)).
C23_FilledLevelByLevel ==
    (InsertCalls >= 1) =>
        /\ Positions(Tree) = 1..size
        /\ \A x \in Places(Tree) : IsInternal(Tree, x[2]) <=> x[1] <= (size - 1) \div 2
        /\ \A x \in Places(Tree) : IsLeaf(Tree, x[2]) <=> x[1] > (size - 1) \div 2
        /\ \A x, y \in Places(Tree) :
              (IsLeaf(Tree, x[2]) /\ IsLeaf(Tree, y[2])) => Log2(x[1]) - Log2(y[1]) <= 1
        /\ \A x \in Places(Tree) : Log2(x[1]) <= Log2(size)
        /\ \E x \in Places(Tree) : Log2(x[1]) = Log2(size)

\* three inserts: the last level holds two of its four places, and leaves
\* sit at depth 1 and at depth 2
C23_Witness ==
    /\ InsertCalls = 3
    /\ size = 5
    /\ \E x, y \in Places(Tree) :
          /\ IsLeaf(Tree, x[2]) /\ IsLeaf(Tree, y[2])
          /\ Log2(x[1]) = 1 /\ Log2(y[1]) = 2


\* ---- Queue (Go) -----------------------------------------------------------

MaxEnqueues == 4              \* Enqueue calls in one behaviour

ErrQueueEmpty == "queue is empty"

QueueCells == 1..(MaxEnqueues + 1)

\* qNode objects that can be reached from a pointer
RECURSIVE Chain(_, _)
Chain(cells, n) ==
    IF n = NULL \/ n \notin DOMAIN cells THEN {} ELSE {n} \cup Chain(cells, cells[n].next)

\* the garbage collector: a qNode no pointer of the queue leads to is gone
Collect(q) ==
    LET live == Chain(q.cells, q.frontNode) \cup Chain(q.cells, q.backNode)
    IN [q EXCEPT !.cells = [n \in live |-> q.cells[n]]]

\* &qNode[T]{data: element, next: nil}: the lowest free cell
NewCell(cells) == CHOOSE n \in QueueCells \ DOMAIN cells :
                      \A m \in QueueCells \ DOMAIN cells : n <= m

Enqueue(q, element) ==
    LET newNode == NewCell(q.cells)
        cells   == [n \in DOMAIN q.cells \cup {newNode} |->
                       IF n = newNode THEN [data |-> element, next |-> NULL] ELSE q.cells[n]]
    IN IF q.backNode = NULL
       THEN [frontNode |-> newNode, backNode |-> newNode, size |-> q.size + 1, cells |-> cells]
       ELSE [frontNode |-> q.frontNode, backNode |-> newNode, size |-> q.size + 1,
             cells |-> [cells EXCEPT ![q.backNode].next = newNode]]

\* Dequeue that leaves backNode alone when the last element goes
Dequeue_KeepsBack(q) ==
    IF q.frontNode = NULL THEN [queue |-> q, err |-> ErrQueueEmpty]
    ELSE [queue |-> Collect([q EXCEPT !.frontNode = q.cells[q.frontNode].next,
                                      !.size = q.size - 1]),
          err |-> "nil"]

Dequeue(q) ==
    IF q.frontNode = NULL THEN [queue |-> q, err |-> ErrQueueEmpty]
    ELSE LET next == q.cells[q.frontNode].next IN
         [queue |-> Collect([q EXCEPT !.frontNode = next,
                                      !.backNode = IF next = NULL THEN NULL ELSE q.backNode,
                                      !.size = q.size - 1]),
          err |-> "nil"]

\* the zero value of T is 0
Front(q) ==
    IF q.frontNode = NULL THEN [value |-> 0, err |-> ErrQueueEmpty]
    ELSE [value |-> q.cells[q.frontNode].data, err |-> "nil"]

Back(q) ==
    IF q.backNode = NULL THEN [value |-> 0, err |-> ErrQueueEmpty]
    ELSE [value |-> q.cells[q.backNode].data, err |-> "nil"]

Size(q) == q.size

\* one call on the queue: its result, the queue it started from, and the
\* elements enqueued and the count of successful dequeues so far
QueueCall(op, value, err, q, enqueued, dequeued) ==
    /\ queue' = q
    /\ qhist' = [op |-> op, value |-> value, err |-> err, pre |-> queue,
                 enqueued |-> enqueued, dequeued |-> dequeued]
    /\ UNCHANGED <<root, nodes, size, other, last, pre, table, thist, goTree>>

DoEnqueue(element) ==
    /\ Len(qhist.enqueued) < MaxEnqueues
    /\ QueueCall("Enqueue", element, "nil", Enqueue(queue, element),
                 Append(qhist.enqueued, element), qhist.dequeued)

DoDequeue ==
    LET r == Dequeue(queue) IN
    QueueCall("Dequeue", 0, r.err, r.queue, qhist.enqueued,
              IF r.err = "nil" THEN qhist.dequeued + 1 ELSE qhist.dequeued)

DoFront ==
    LET r == Front(queue) IN
    QueueCall("Front", r.value, r.err, queue, qhist.enqueued, qhist.dequeued)

DoBack ==
    LET r == Back(queue) IN
    QueueCall("Back", r.value, r.err, queue, qhist.enqueued, qhist.dequeued)

NextQueue ==
    \/ \E element \in Values : DoEnqueue(element)
    \/ DoDequeue
    \/ DoFront
    \/ DoBack

SpecQueue == Init /\ [][NextQueue]_vars

\* the elements enqueued and not yet dequeued, earliest first
Pending == SubSeq(qhist.enqueued, qhist.dequeued + 1, Len(qhist.enqueued))

\* the data of the qNode chain that starts at n
RECURSIVE Elements(_, _)
Elements(cells, n) ==
    IF n = NULL THEN <<>> ELSE <<cells[n].data>> \o Elements(cells, cells[n].next)

\* C24: the queue is first in, first out: Front returns the earliest element
\* enqueued and not yet dequeued, Back the latest element enqueued, Size the
\* number of enqueues less the number of successful dequeues; frontNode is
\* nil exactly when backNode is nil, exactly when size is 0; Dequeue, Front
\* and Back on an empty queue return ErrQueueEmpty and change nothing.
C24_QueueIsFifo ==
    /\ Elements(queue.cells, queue.frontNode) = Pending
    /\ Pending # <<>> =>
          /\ Front(queue) = [value |-> Head(Pending), err |-> "nil"]
          /\ Back(queue) = [value |-> Pending[Len(Pending)], err |-> "nil"]
    /\ Pending = <<>> =>
          /\ Front(queue).err = ErrQueueEmpty
          /\ Back(queue).err = ErrQueueEmpty
          /\ Dequeue(queue) = [queue |-> queue, err |-> ErrQueueEmpty]
    /\ Size(queue) = Len(qhist.enqueued) - qhist.dequeued
    /\ (queue.frontNode = NULL) <=> (queue.backNode = NULL)
    /\ (queue.frontNode = NULL) <=> (queue.size = 0)
    /\ qhist.op \in {"Front", "Back"} =>
          /\ queue = qhist.pre
          /\ qhist.err = (IF Pending = <<>> THEN ErrQueueEmpty ELSE "nil")
          /\ qhist.err = "nil" =>
                qhist.value = (IF qhist.op = "Front" THEN Head(Pending)
                               ELSE Pending[Len(Pending)])
    /\ qhist.op = "Dequeue" =>
          /\ qhist.err = (IF qhist.pre.size = 0 THEN ErrQueueEmpty ELSE "nil")
          /\ qhist.err = ErrQueueEmpty => queue = qhist.pre

\* the queue was emptied by dequeues and an element was enqueued again; two
\* elements wait and Front returned the earlier one
C24_Witness ==
    /\ qhist.op = "Front"
    /\ qhist.err = "nil"
    /\ qhist.dequeued >= 2
    /\ Len(Pending) = 2
    /\ Pending[1] # Pending[2]
    /\ qhist.value = Pending[1]


\* ---- HashTable (Go) -------------------------------------------------------

MaxKey == 2                   \* keys are 0..MaxKey
MaxTableValue == 2            \* values are 1..MaxTableValue
MaxBuckets == 2               \* initial bucket counts are 1..MaxBuckets or the default

Keys == 0..MaxKey

TableValues == 1..MaxTableValue

EntryIds == 1..(MaxKey + 1)

\* fnv.New64a(): the offset basis and the prime of 64-bit FNV-1a, as eight
\* bytes each, low byte first
FnvOffset64 == <<37, 35, 34, 132, 228, 156, 242, 203>>

FnvPrime64 == <<179, 1, 0, 0, 0, 1, 0, 0>>

\* bitwise exclusive or of two bytes
RECURSIVE Xor(_, _)
Xor(x, y) == IF x = 0 /\ y = 0 THEN 0
             ELSE (((x % 2) + (y % 2)) % 2) + 2 * Xor(x \div 2, y \div 2)

RECURSIVE ColumnSum(_, _, _, _)
ColumnSum(a, b, k, i) ==
    IF i > k THEN 0 ELSE a[i] * b[k - i + 1] + ColumnSum(a, b, k, i + 1)

\* the product of two 64-bit numbers modulo 2^64, byte by byte from byte k
RECURSIVE MulFrom(_, _, _, _)
MulFrom(a, b, k, carry) ==
    IF k > 8 THEN <<>>
    ELSE LET t == ColumnSum(a, b, k, 1) + carry
         IN <<t % 256>> \o MulFrom(a, b, k + 1, t \div 256)

\* h.Write(data): hash ^= byte; hash *= prime, for every byte
RECURSIVE FnvWrite(_, _)
FnvWrite(h, data) ==
    IF data = <<>> THEN h
    ELSE FnvWrite(MulFrom(<<Xor(h[1], Head(data))>> \o Tail(h), FnvPrime64, 1, 0), Tail(data))

\* a 64-bit number modulo m, from byte i down
RECURSIVE ModFrom(_, _, _, _)
ModFrom(h, m, i, r) == IF i = 0 THEN r ELSE ModFrom(h, m, i - 1, (r * 256 + h[i]) % m)

\* []byte(fmt.Sprintf("%v", key)) for a key that is a natural number
KeyBytes(key) == [i \in 1..Len(Decimal(key)) |-> 48 + DigitValue(Decimal(key)[i])]

\* h.Sum64() after h.Write of the bytes of each key
FnvSum64 == [key \in Keys |-> FnvWrite(FnvOffset64, KeyBytes(key))]

hash(ht, key) == ModFrom(FnvSum64[key], ht.bucketCount, 8, 0)

\* ht.LoadFactor() > 0.75
LoadFactorAbove(ht) == 4 * ht.size > 3 * ht.bucketCount

\* the inner loop of rehash: the chain from current is moved, entry by
\* entry, to the heads of the new buckets
RECURSIVE RehashChain(_, _)
RehashChain(ht, current) ==
    IF current = NULL THEN ht
    ELSE LET next     == ht.entries[current].Next
             newIndex == hash(ht, ht.entries[current].Key)
         IN RehashChain([ht EXCEPT !.entries[current].Next = ht.buckets[newIndex],
                                   !.buckets[newIndex] = current,
                                   !.size = ht.size + 1], next)

\* the outer loop of rehash over oldBuckets[i..]
RECURSIVE RehashBuckets(_, _, _)
RehashBuckets(ht, oldBuckets, i) ==
    IF i \notin DOMAIN oldBuckets THEN ht
    ELSE RehashBuckets(RehashChain(ht, oldBuckets[i]), oldBuckets, i + 1)

rehash(ht) ==
    RehashBuckets([buckets |-> [i \in 0..(2 * ht.bucketCount - 1) |-> NULL],
                   size |-> 0, bucketCount |-> 2 * ht.bucketCount, entries |-> ht.entries],
                  ht.buckets, 0)

\* the entry of the chain from current that holds key, or nil
RECURSIVE ChainScan(_, _, _)
ChainScan(entries, current, key) ==
    IF current = NULL THEN NULL
    ELSE IF entries[current].Key = key THEN current
    ELSE ChainScan(entries, entries[current].Next, key)

\* the loop of Remove: (current, prev) at the entry that holds key
RECURSIVE RemoveScan(_, _, _, _)
RemoveScan(entries, current, prev, key) ==
    IF current = NULL THEN <<NULL, prev>>
    ELSE IF entries[current].Key = key THEN <<current, prev>>
    ELSE RemoveScan(entries, entries[current].Next, current, key)

NewEntry(entries) == CHOOSE n \in EntryIds \ DOMAIN entries :
                         \A m \in EntryIds \ DOMAIN entries : n <= m


ErrKeyNotFound == "key not found"

\* entry objects that can be reached from a pointer
RECURSIVE EntryChain(_, _)
EntryChain(entries, e) ==
    IF e = NULL \/ e \notin DOMAIN entries THEN {}
    ELSE {e} \cup EntryChain(entries, entries[e].Next)

\* the garbage collector: an entry no bucket leads to is gone
CollectEntries(ht) ==
    LET live == UNION {EntryChain(ht.entries, ht.buckets[i]) : i \in DOMAIN ht.buckets}
    IN [ht EXCEPT !.entries = [e \in live |-> ht.entries[e]]]

\* Insert that never looks for the key in the chain
HashTableInsert_NoUpdate(ht0, key, value) ==
    LET ht    == IF LoadFactorAbove(ht0) THEN rehash(ht0) ELSE ht0
        index == hash(ht, key)
        newEntry == NewEntry(ht.entries)
    IN [ht EXCEPT
          !.entries = [e \in DOMAIN ht.entries \cup {newEntry} |->
                          IF e = newEntry
                          THEN [Key |-> key, Value |-> value, Next |-> ht.buckets[index]]
                          ELSE ht.entries[e]],
          !.buckets[index] = newEntry,
          !.size = ht.size + 1]

\* Insert(key, value) on the table ht0
HashTableInsert(ht0, key, value) ==
    LET ht    == IF LoadFactorAbove(ht0) THEN rehash(ht0) ELSE ht0
        index == hash(ht, key)
        found == ChainScan(ht.entries, ht.buckets[index], key)
    IN IF found # NULL
       THEN [ht EXCEPT !.entries[found].Value = value]
       ELSE LET newEntry == NewEntry(ht.entries) IN
            [ht EXCEPT
               !.entries = [e \in DOMAIN ht.entries \cup {newEntry} |->
                               IF e = newEntry
                               THEN [Key |-> key, Value |-> value, Next |-> ht.buckets[index]]
                               ELSE ht.entries[e]],
               !.buckets[index] = newEntry,
               !.size = ht.size + 1]

\* Remove that always unlinks at the head of the bucket
HashTableRemove_UnlinksHead(ht, key) ==
    LET index   == hash(ht, key)
        cp      == RemoveScan(ht.entries, ht.buckets[index], NULL, key)
        current == cp[1]
    IN IF current = NULL THEN [table |-> ht, err |-> ErrKeyNotFound]
       ELSE [table |-> CollectEntries([ht EXCEPT !.buckets[index] = ht.entries[current].Next,
                                                 !.size = ht.size - 1]),
             err |-> "nil"]

\* Remove(key)
HashTableRemove(ht, key) ==
    LET index   == hash(ht, key)
        cp      == RemoveScan(ht.entries, ht.buckets[index], NULL, key)
        current == cp[1]
        prev    == cp[2]
    IN IF current = NULL THEN [table |-> ht, err |-> ErrKeyNotFound]
       ELSE LET unlinked == IF prev # NULL
                            THEN [ht EXCEPT !.entries[prev].Next = ht.entries[current].Next]
                            ELSE [ht EXCEPT !.buckets[index] = ht.entries[current].Next]
            IN [table |-> CollectEntries([unlinked EXCEPT !.size = ht.size - 1]),
                err |-> "nil"]

\* Get(key); the zero value of V is 0
Get(ht, key) ==
    LET current == ChainScan(ht.entries, ht.buckets[hash(ht, key)], key) IN
    IF current = NULL THEN [value |-> 0, err |-> ErrKeyNotFound]
    ELSE [value |-> ht.entries[current].Value, err |-> "nil"]

\* Find(key)
Find(ht, key) == ChainScan(ht.entries, ht.buckets[hash(ht, key)], key) # NULL

\* one call on the table: its result, the table it started from, and for
\* every key the value of the latest Insert that no Remove has followed
TableCall(op, key, value, err, found, ht, latest) ==
    /\ table' = ht
    /\ thist' = [op |-> op, key |-> key, value |-> value, err |-> err, found |-> found,
                 pre |-> table, latest |-> latest]
    /\ UNCHANGED <<root, nodes, size, other, last, pre, queue, qhist, goTree>>

DoInsert(key, value) ==
    TableCall("Insert", key, value, "nil", FALSE, HashTableInsert(table, key, value),
              [k \in DOMAIN thist.latest \cup {key} |->
                  IF k = key THEN value ELSE thist.latest[k]])

DoRemove(key) ==
    LET r == HashTableRemove(table, key) IN
    TableCall("Remove", key, 0, r.err, FALSE, r.table,
              [k \in DOMAIN thist.latest \ {key} |-> thist.latest[k]])

DoGet(key) ==
    LET r == Get(table, key) IN
    TableCall("Get", key, r.value, r.err, FALSE, table, thist.latest)

DoFind(key) ==
    TableCall("Find", key, 0, "nil", Find(table, key), table, thist.latest)

\* NewHashTable(), NewHashTable(0) .. NewHashTable(MaxBuckets)
InitTables ==
    /\ InitTree
    /\ InitQueue
    /\ InitGoTree
    /\ \E args \in {<<>>} \cup {<<bc>> : bc \in 0..MaxBuckets} : InitTable(args)

NextTable ==
    \/ \E key \in Keys, value \in TableValues : DoInsert(key, value)
    \/ \E key \in Keys : DoRemove(key)
    \/ \E key \in Keys : DoGet(key)
    \/ \E key \in Keys : DoFind(key)

SpecTable == InitTables /\ [][NextTable]_vars


\* ---- claims about the HashTable ---------------------------------------------

\* the entries a table holds: those its buckets lead to
Stored(ht) == UNION {EntryChain(ht.entries, ht.buckets[i]) : i \in DOMAIN ht.buckets}

Present(ht, key) == \E e \in Stored(ht) : ht.entries[e].Key = key

C26_InsertIsUpsert ==
    /\ \A e1, e2 \in Stored(table) :
          table.entries[e1].Key = table.entries[e2].Key => e1 = e2
    /\ table.size = Cardinality(Stored(table))
    /\ {<<table.entries[e].Key, table.entries[e].Value>> : e \in Stored(table)}
          = {<<k, thist.latest[k]>> : k \in DOMAIN thist.latest}
    /\ \A k \in Keys :
          Get(table, k) = IF k \in DOMAIN thist.latest
                          THEN [value |-> thist.latest[k], err |-> "nil"]
                          ELSE [value |-> 0, err |-> ErrKeyNotFound]
    /\ thist.op = "Insert" =>
          /\ table.size = thist.pre.size + (IF Present(thist.pre, thist.key) THEN 0 ELSE 1)
          /\ Get(table, thist.key) = [value |-> thist.value, err |-> "nil"]
          /\ \A k \in Keys \ {thist.key} : Get(table, k) = Get(thist.pre, k)

\* an Insert of a key that was present replaced its value while the table
\* was rehashed, with a second key stored
C26_Witness ==
    /\ thist.op = "Insert"
    /\ Present(thist.pre, thist.key)
    /\ Get(thist.pre, thist.key).value # thist.value
    /\ table.bucketCount = 2 * thist.pre.bucketCount
    /\ table.size = 2
    /\ Get(table, thist.key).value = thist.value

\* C27: Remove(k) of a present key returns no error, makes Find(k) false,
\* lowers size by 1 and leaves the value of every other key alone;
\* Remove(k) and Get(k) of an absent key return an error and leave the
\* table as it was.
C27_RemoveAndGet ==
    /\ thist.op = "Remove" =>
          IF Present(thist.pre, thist.key)
          THEN /\ thist.err = "nil"
               /\ ~Find(table, thist.key)
               /\ ~Present(table, thist.key)
               /\ table.size = thist.pre.size - 1
               /\ \A k \in Keys \ {thist.key} :
                     Get(table, k) = Get(thist.pre, k) /\ Find(table, k) = Find(thist.pre, k)
          ELSE thist.err = ErrKeyNotFound /\ table = thist.pre
    /\ thist.op = "Get" =>
          /\ table = thist.pre
          /\ thist.err = (IF Present(table, thist.key) THEN "nil" ELSE ErrKeyNotFound)

\* the key removed sat behind another key in the chain of its bucket
C27_Witness ==
    /\ thist.op = "Remove"
    /\ thist.err = "nil"
    /\ Present(thist.pre, thist.key)
    /\ LET head == thist.pre.buckets[hash(thist.pre, thist.key)] IN
       thist.pre.entries[head].Key # thist.key
    /\ table.size = thist.pre.size - 1
    /\ table.size >= 1


\* ---- claims about find, isFullBinaryTree and the target of remove ----------

\* the values a tree holds
ValuesOf(t) == {t.nodes[n].data : n \in Reachable(t)}

\* C28: find(v) is true exactly when a node reachable from the root holds v,
\* whatever the shape of the tree and the place of v in it.
C28_FindIsMembership ==
    \A v \in Values \cup ValuesOf(Tree) \cup {MaxValue + 1} :
        find(Tree, v) <=> Contains(Tree, v)

\* a value held on the deepest level only, in the last pair of leaves of a
\* tree of height 2, is found
C28_Witness ==
    \E v \in Values :
        /\ Holders(Tree, v) # {}
        /\ \A n \in Holders(Tree, v) : IsLeaf(Tree, n) /\ Log2(PosOf(Tree, n)) = 2
        /\ \E n \in Holders(Tree, v) : n = LastOf(Tree, Reachable(Tree))
        /\ \A x \in Places(Tree) : Log2(x[1]) <= 2
        /\ find(Tree, v)

OneChild(t, n) == (t.nodes[n].left = NULL) # (t.nodes[n].right = NULL)

\* C29: isFullBinaryTree() is false exactly when some node reachable from
\* the root has one child only, also on the shapes that only a decoded
\* stream can build.
C29_FullnessTest ==
    isFullBinaryTree(Tree) <=> ~(\E n \in Reachable(Tree) : OneChild(Tree, n))

\* a decoded tree whose root has a right child and no left child
C29_Witness ==
    /\ last.op \in {"deserializeText", "deserializeBinary"}
    /\ root # NULL
    /\ nodes[root].left = NULL
    /\ nodes[root].right # NULL
    /\ ~isFullBinaryTree(Tree)

\* C30: when several nodes hold the value, remove acts on the first of them
\* in level order: that node alone decides between the leaf branch and the
\* internal branch, it is the node deleted with its sibling in the leaf
\* branch and the node overwritten in the internal branch, and the other
\* holders that stay in the tree keep the value.
C30_FirstHolderIsTarget ==
    (last.op = "remove" /\ Cardinality(Holders(PreTree, last.arg)) >= 2) =>
        LET target == FirstOf(PreTree, Holders(PreTree, last.arg))
            others == (Holders(PreTree, last.arg) \ {target}) \cap Reachable(Tree)
        IN /\ last.branch = (IF IsLeaf(PreTree, target) THEN "leaf" ELSE "internal")
           /\ \A n \in Holders(PreTree, last.arg) : PosOf(PreTree, target) <= PosOf(PreTree, n)
           /\ last.branch = "leaf" =>
                 /\ target \notin Reachable(Tree)
                 /\ target \notin DOMAIN nodes
                 /\ IsLeaf(Tree, ParentOf(PreTree, target))
           /\ last.branch = "internal" =>
                 /\ target \in Reachable(Tree)
                 /\ PosOf(Tree, target) = PosOf(PreTree, target)
                 /\ nodes[target].data = pre.nodes[LastOf(PreTree, Leaves(PreTree))].data
           /\ \A n \in others : nodes[n].data = last.arg

\* the first holder was internal and a later holder was a leaf: the internal
\* branch ran and the leaf kept the value
C30_Witness ==
    /\ last.op = "remove"
    /\ last.branch = "internal"
    /\ Cardinality(Holders(PreTree, last.arg)) >= 2
    /\ \E n \in Holders(PreTree, last.arg) :
          /\ IsLeaf(PreTree, n)
          /\ n \in Reachable(Tree)
          /\ nodes[n].data = last.arg
    /\ nodes[FirstOf(PreTree, Holders(PreTree, last.arg))].data # last.arg


\* ---- claims about the serialized form ------------------------------------

\* the preorder records of the subtree at position p: the value of the node
\* there, then its left and right subtrees; 0 where there is no node
RECURSIVE PreorderRecords(_, _)
PreorderRecords(t, p) ==
    IF p \notin Positions(t) THEN <<0>>
    ELSE <<t.nodes[NodeAt(t, p)].data>>
         \o PreorderRecords(t, 2 * p) \o PreorderRecords(t, 2 * p + 1)

CountOf(records, isNull) ==
    Cardinality({i \in 1..Len(records) : (records[i] = 0) = isNull})

\* C31: for a tree of n reachable nodes each serializer writes the size
\* header and then the preorder records of the tree: n value records and
\* n + 1 null markers, one for every absent child (one marker alone for the
\* empty tree).
C31_PreorderStream ==
    LET records == PreorderRecords(Tree, 1)
        n       == Cardinality(Reachable(Tree))
    IN /\ CountOf(records, FALSE) = n
       /\ CountOf(records, TRUE) = n + 1
       /\ serializeBinary(Tree) = ToBytes(size, SizeOfSizeT) \o BinaryRecords(records)
       /\ serializeText("int", Tree)
             = Decimal(size) \o <<"\n">> \o TextRecords(records) \o <<"\n">>
       /\ Len(serializeBinary(Tree))
             = SizeOfSizeT + n * (SizeOfBool + SizeOfT) + (n + 1) * SizeOfBool

\* a tree of five nodes left by a remove, whose left subtree is a leaf
C31_Witness ==
    /\ last.op = "remove"
    /\ Cardinality(Reachable(Tree)) = 5
    /\ Positions(Tree) = {1, 2, 3, 6, 7}
    /\ CountOf(PreorderRecords(Tree, 1), TRUE) = 6

\* ---- the serializers of the Go tree -------------------------------------

\* enc.Encode(e) for a pointer e: a nil pointer handed to the encoder
\* panics, any other value is written as one message
Encode(e) == [panicked |-> e = NULL, message |-> IF e = NULL THEN <<>> ELSE <<e>>]

\* FullBinaryTree.Serialize: the messages written, the error returned and
\* whether the call panicked
Serialize(t) ==
    LET root_message == Encode(t.root) IN
    [out |-> <<t.size>> \o root_message.message, err |-> "nil",
     panicked |-> root_message.panicked]

\* FullBinaryTree.SerializeText for T = int
SerializeText(t) == Decimal(t.size) \o <<"\n">> \o serializeHelper("int", t.nodes, t.root)

\* strings.Fields
RECURSIVE Fields(_)
Fields(buf) ==
    LET rest == SkipSpace(buf)
        k    == TokenLen(rest)
    IN IF k = 0 THEN <<>>
       ELSE <<SubSeq(rest, 1, k)>> \o Fields(SubSeq(rest, k + 1, Len(rest)))

\* fmt.Sscan and fmt.Sscanf("%d") of a token into an int without sign
Sscan(token) ==
    LET k == DigitPrefixLen(token) IN
    [ok |-> k > 0, value |-> DigitsValue(SubSeq(token, 1, k), 0)]

\* deserializeTextHelper: the node built, the heap, the next index and the error
RECURSIVE deserializeTextHelper(_, _, _)
deserializeTextHelper(h, tokens, index) ==
    IF index > Len(tokens) THEN [node |-> NULL, nodes |-> h, index |-> index, err |-> "nil"]
    ELSE IF tokens[index] = NullToken
    THEN [node |-> NULL, nodes |-> h, index |-> index + 1, err |-> "nil"]
    ELSE IF ~Sscan(tokens[index]).ok
    THEN [node |-> NULL, nodes |-> h, index |-> index + 1, err |-> "failed to parse value"]
    ELSE IF NodeIds \ DOMAIN h = {}
    THEN [node |-> NULL, nodes |-> h, index |-> index + 1, err |-> "out of memory"]
    ELSE LET newNode == NewId(h)
             l == deserializeTextHelper(New(h, newNode, Sscan(tokens[index]).value),
                                        tokens, index + 1)
         IN IF l.err # "nil" THEN [l EXCEPT !.node = NULL]
            ELSE LET r == deserializeTextHelper([l.nodes EXCEPT ![newNode].left = l.node],
                                                tokens, l.index)
                 IN IF r.err # "nil" THEN [r EXCEPT !.node = NULL]
                    ELSE [node |-> newNode, index |-> r.index, err |-> "nil",
                          nodes |-> [r.nodes EXCEPT ![newNode].right = r.node]]

\* FullBinaryTree.DeserializeText of the tree t in a heap of its own: the
\* tree afterwards and the error returned
GoDeserializeText(t, in) ==
    LET tokens == Fields(in) IN
    IF Len(tokens) = 0
    THEN [root |-> NULL, nodes |-> << >>, size |-> 0, err |-> "empty input"]
    ELSE IF ~Sscan(tokens[1]).ok
    THEN [root |-> NULL, nodes |-> << >>, size |-> 0, err |-> "failed to parse size"]
    ELSE LET b == deserializeTextHelper(<< >>, tokens, 2) IN
         [root |-> b.node, nodes |-> b.nodes, size |-> Sscan(tokens[1]).value, err |-> b.err]

\* the tree is empty and decoding its serializations gives an empty tree
EmptyRoundTripCpp ==
    \A g \in Garbage :
        LET b == deserializeBinary(FreshTree, IStream(serializeBinary(Tree)), g)
            t == deserializeText("int", FreshTree, IStream(serializeText("int", Tree)), g)
        IN /\ ~b.thrown /\ b.root = NULL /\ b.size = 0
           /\ ~t.thrown /\ t.root = NULL /\ t.size = 0

EmptyRoundTripGoText ==
    LET t == GoDeserializeText(FreshTree, SerializeText(Tree)) IN
    t.err = "nil" /\ t.root = NULL /\ t.size = 0

\* C32: whenever the tree is empty, serializing it succeeds in both
\* encodings of both implementations, and decoding that output succeeds and
\* gives a tree with no root and size 0.
C32_EmptyRoundTrip ==
    Empty(Tree) =>
        /\ EmptyRoundTripCpp
        /\ EmptyRoundTripGoText
        /\ ~Serialize(Tree).panicked
        /\ Serialize(Tree).err = "nil"

\* the part of C32 that the code keeps: everything but the Go binary form
C32_EmptyRoundTripButGob ==
    Empty(Tree) => (EmptyRoundTripCpp /\ EmptyRoundTripGoText)

C32_Witness == Empty(Tree) /\ last.op = "clear" /\ pre.size >= 3

\* ---- deserialization into a tree that holds nodes -------------------------

\* what the last deserialization gives when its target is a new tree and
\* the locals it fails to read hold g
DecodedFresh(g) ==
    IF last.op = "deserializeText"
    THEN deserializeText("int", FreshTree, IStream(TextOf(last.arg)), g)
    ELSE deserializeBinary(FreshTree, IStream(BinaryOf(last.arg)), g)

\* C33: a deserialization, binary or text, gives the tree that decoding the
\* same stream into an empty tree gives (same root, nodes, values and size,
\* same outcome), whatever the target held before, and every node the
\* target held before is freed: the heap holds only nodes built from the
\* stream.
C33_DecodeIgnoresTarget ==
    Deserialized =>
        \E g \in Garbage :
            LET fresh == DecodedFresh(g) IN
            /\ root = fresh.root
            /\ nodes = fresh.nodes
            /\ size = fresh.size
            /\ Shape(Tree) = Shape(fresh)
            /\ (last.branch = "thrown") = fresh.thrown

\* a well-formed stream of one node was decoded over a target of three nodes
\* that hold other values
C33_Witness ==
    /\ Deserialized
    /\ last.branch = "returned"
    /\ last.arg.header = 1
    /\ last.arg.records = <<2, 0, 0>>
    /\ last.arg.cut = 0
    /\ Cardinality(Reachable(PreTree)) = 3
    /\ 2 \notin ValuesOf(PreTree)
    /\ Shape(Tree) = {<<1, 2>>}
    /\ size = 1

\* ---- self-assignment -------------------------------------------------------

\* C34: assigning a tree to itself leaves its root, its nodes with their
\* values and links, its shape and its size as they were, and frees no
\* node: the allocated cells are the same as before.
C34_SelfAssignIsNoOp ==
    last.op = "selfAssign" =>
        /\ root = pre.root
        /\ size = pre.size
        /\ Shape(Tree) = Shape(PreTree)
        /\ DOMAIN nodes = DOMAIN pre.nodes
        /\ \A n \in DOMAIN nodes : nodes[n] = pre.nodes[n]

\* a tree of three nodes was assigned to itself
C34_Witness ==
    /\ last.op = "selfAssign"
    /\ Cardinality(Reachable(Tree)) = 3
    /\ size = 3

\* ---- the last leaf in level order -------------------------------------------

\* (rightmost, rightmostParent) as the second loop of remove finds them in t
Rightmost(t) == RightmostScan(t.nodes, << <<t.root, NULL>> >>, <<NULL, NULL>>)

\* the last leaf of t in level order exists, has a parent, is the right
\* child of it, has a leaf as sibling and is no internal node
LastLeafIsRightOfPair(t) ==
    LET rightmost       == Rightmost(t)[1]
        rightmostParent == Rightmost(t)[2]
    IN /\ rightmost # NULL
       /\ rightmost = LastOf(t, Leaves(t))
       /\ rightmostParent # NULL
       /\ rightmostParent \in Reachable(t)
       /\ t.nodes[rightmostParent].right = rightmost
       /\ t.nodes[rightmostParent].left # NULL
       /\ IsLeaf(t, t.nodes[rightmostParent].left)
       /\ \A target \in Reachable(t) : IsInternal(t, target) => rightmost # target

\* C35: in every full binary tree with more than one node the last leaf in
\* level order exists, has a parent, is a right child, has a leaf as sibling
\* and is not an internal node; and a remove that took the internal-target
\* branch passed both guards: it freed exactly two nodes, the last leaf and
\* its sibling, and every other node that was reachable still is.
C35_LastLeafPair ==
    /\ (isFullBinaryTree(Tree) /\ Cardinality(Reachable(Tree)) > 1) =>
          LastLeafIsRightOfPair(Tree)
    /\ (last.op = "remove" /\ last.branch = "internal") =>
          LET rightmost       == Rightmost(PreTree)[1]
              rightmostParent == Rightmost(PreTree)[2]
              pair            == {rightmost, pre.nodes[rightmostParent].left}
          IN /\ LastLeafIsRightOfPair(PreTree)
             /\ Cardinality(pair) = 2
             /\ DOMAIN pre.nodes \ DOMAIN nodes = pair
             /\ Reachable(Tree) = Reachable(PreTree) \ pair
             /\ DOMAIN nodes \ Reachable(Tree) = DOMAIN pre.nodes \ Reachable(PreTree)
             /\ size = pre.size - 2

\* an internal node of a tree of seven nodes was removed, and the pair that
\* was deleted hung below another node than the target and than the root
C35_Witness ==
    /\ last.op = "remove"
    /\ last.branch = "internal"
    /\ Cardinality(Reachable(PreTree)) = 7
    /\ Rightmost(PreTree)[2] # pre.root
    /\ Rightmost(PreTree)[2] # FirstOf(PreTree, Holders(PreTree, last.arg))
    /\ Cardinality(Reachable(Tree)) = 5

\* ---- allocated and reachable nodes ------------------------------------------

\* C36: after every completed call the nodes allocated and not yet freed
\* are exactly the nodes reachable from the root: no node is leaked and no
\* freed node is reachable.
C36_AllocatedIsReachable ==
    /\ Reachable(Tree) \subseteq DOMAIN nodes
    /\ DOMAIN nodes \subseteq Reachable(Tree)

\* the part of C36 that the code keeps: no freed node is reachable
C36_NoDanglingNode == Reachable(Tree) \subseteq DOMAIN nodes

\* ---- the stored size --------------------------------------------------------

\* C37: after every call the stored size is 0 or an odd number.
C37_SizeIsZeroOrOdd == size = 0 \/ size % 2 = 1

\* C38: after every call the stored size is at least the number of
\* reachable nodes, and every remove that lowered size by 2 started from a
\* size of 2 or more: the size never wraps around or turns negative.
C38_SizeCoversNodes ==
    /\ size >= Cardinality(Reachable(Tree))
    /\ size >= 0
    /\ (last.op = "remove" /\ last.branch \in {"leaf", "internal"}) =>
          (pre.size >= 2 /\ size = pre.size - 2)

\* C39: after every call isEmpty() is true exactly when the root is absent.
C39_EmptyIffNoRoot == isEmpty(Tree) <=> (root = NULL)

\* a leaf was removed together with an internal sibling: size is 3 and odd
\* while one node is reachable
C37_Witness ==
    /\ last.op = "remove"
    /\ last.branch = "leaf"
    /\ size = 3
    /\ Cardinality(Reachable(Tree)) = 1

\* a pair was removed from a tree whose size was already larger than its
\* number of reachable nodes
C38_Witness ==
    /\ last.op = "remove"
    /\ last.branch = "leaf"
    /\ pre.size = 5
    /\ Cardinality(Reachable(PreTree)) = 3
    /\ size = 3

\* the only node was removed from a tree whose size was 3
C39_Witness ==
    /\ last.op = "remove"
    /\ last.branch = "soleroot"
    /\ pre.size = 3
    /\ root = NULL
    /\ isEmpty(Tree)

\* ---- the Go FullBinaryTree ---------------------------------------------------

\* queue = append(queue, current.Left), then current.Right, when not nil
AppendChildren(h, bfsQueue, current) ==
    LET q1 == IF h[current].left # NULL THEN Append(bfsQueue, h[current].left) ELSE bfsQueue
    IN IF h[current].right # NULL THEN Append(q1, h[current].right) ELSE q1

\* the same with nodePair{n, parent} elements
AppendChildPairs(h, bfsQueue, n) ==
    LET q1 == IF h[n].left # NULL THEN Append(bfsQueue, [n |-> h[n].left, parent |-> n])
              ELSE bfsQueue
    IN IF h[n].right # NULL THEN Append(q1, [n |-> h[n].right, parent |-> n]) ELSE q1

\* the node objects the garbage collector keeps: those reachable from n
RECURSIVE Live(_, _)
Live(h, n) == IF n = NULL THEN {} ELSE {n} \cup Live(h, h[n].left) \cup Live(h, h[n].right)

GarbageCollect(t) ==
    [root |-> t.root, size |-> t.size, nodes |-> [n \in Live(t.nodes, t.root) |-> t.nodes[n]]]

\* the loop of Insert: the tree after the call
RECURSIVE GoInsertLoop(_, _, _)
GoInsertLoop(t, bfsQueue, value) ==
    IF Len(bfsQueue) = 0 THEN t
    ELSE LET current == bfsQueue[1] IN
         IF t.nodes[current].left = NULL /\ t.nodes[current].right = NULL
         THEN LET l  == NewId(t.nodes)
                  h1 == New(t.nodes, l, value)
                  r  == NewId(h1)
                  h2 == New(h1, r, value)
              IN [root |-> t.root, size |-> t.size + 2,
                  nodes |-> [h2 EXCEPT ![current].left = l, ![current].right = r]]
         ELSE GoInsertLoop(t, AppendChildren(t.nodes, Tail(bfsQueue), current), value)

GoInsert(t, value) ==
    IF t.root = NULL
    THEN LET id == NewId(t.nodes) IN
         [root |-> id, nodes |-> New(t.nodes, id, value), size |-> 1]
    ELSE GoInsertLoop(t, <<t.root>>, value)

RECURSIVE GoFindLoop(_, _, _)
GoFindLoop(h, bfsQueue, value) ==
    IF Len(bfsQueue) = 0 THEN FALSE
    ELSE LET current == bfsQueue[1] IN
         IF h[current].data = value THEN TRUE
         ELSE GoFindLoop(h, AppendChildren(h, Tail(bfsQueue), current), value)

GoFind(t, value) == IF t.root = NULL THEN FALSE ELSE GoFindLoop(t.nodes, <<t.root>>, value)

\* first loop of Remove: found, target and parentOfTarget
RECURSIVE GoTargetLoop(_, _, _)
GoTargetLoop(h, bfsQueue, value) ==
    IF Len(bfsQueue) = 0 THEN [found |-> FALSE, target |-> NULL, parentOfTarget |-> NULL]
    ELSE LET currPair == bfsQueue[1] IN
         IF h[currPair.n].data = value
         THEN [found |-> TRUE, target |-> currPair.n, parentOfTarget |-> currPair.parent]
         ELSE GoTargetLoop(h, AppendChildPairs(h, Tail(bfsQueue), currPair.n), value)

\* second loop of Remove: rightmost and rightmostParent
RECURSIVE GoRightmostLoop(_, _, _)
GoRightmostLoop(h, leafQueue, sofar) ==
    IF Len(leafQueue) = 0 THEN sofar
    ELSE LET currPair == leafQueue[1]
             isLeaf   == h[currPair.n].left = NULL /\ h[currPair.n].right = NULL
         IN GoRightmostLoop(h, AppendChildPairs(h, Tail(leafQueue), currPair.n),
                            IF isLeaf
                            THEN [rightmost |-> currPair.n, rightmostParent |-> currPair.parent]
                            ELSE sofar)

\* DropChildren that forgets the right child
DropChildren_LeftOnly(h, p) == [h EXCEPT ![p].left = NULL]

\* p.Left = nil; p.Right = nil
DropChildren(h, p) == [h EXCEPT ![p].left = NULL, ![p].right = NULL]

\* Remove, before the garbage collector runs
GoRemoveCall(t, value) ==
    IF t.root = NULL THEN t
    ELSE LET s == GoTargetLoop(t.nodes, <<[n |-> t.root, parent |-> NULL]>>, value) IN
         IF ~s.found THEN t
         ELSE IF t.nodes[s.target].left = NULL /\ t.nodes[s.target].right = NULL
         THEN IF s.parentOfTarget # NULL
              THEN [root |-> t.root, size |-> t.size - 2,
                    nodes |-> DropChildren(t.nodes, s.parentOfTarget)]
              ELSE [root |-> NULL, size |-> 0, nodes |-> t.nodes]
         ELSE LET r == GoRightmostLoop(t.nodes, <<[n |-> t.root, parent |-> NULL]>>,
                                       [rightmost |-> NULL, rightmostParent |-> NULL])
              IN IF r.rightmost # NULL /\ r.rightmost # s.target
                 THEN LET h1 == [t.nodes EXCEPT ![s.target].data = t.nodes[r.rightmost].data]
                      IN IF r.rightmostParent # NULL
                         THEN [root |-> t.root, size |-> t.size - 2,
                               nodes |-> DropChildren(h1, r.rightmostParent)]
                         ELSE [root |-> t.root, size |-> t.size, nodes |-> h1]
                 ELSE t

GoRemove(t, value) == GarbageCollect(GoRemoveCall(t, value))

GoClear(t) == GarbageCollect([root |-> NULL, size |-> 0, nodes |-> t.nodes])

RECURSIVE GoIsFullBinaryTreeHelper(_, _)
GoIsFullBinaryTreeHelper(h, n) ==
    IF n = NULL THEN TRUE
    ELSE IF (h[n].left = NULL) # (h[n].right = NULL) THEN FALSE
    ELSE GoIsFullBinaryTreeHelper(h, h[n].left) /\ GoIsFullBinaryTreeHelper(h, h[n].right)

GoIsFullBinaryTree(t) == GoIsFullBinaryTreeHelper(t.nodes, t.root)

\* ---- the two implementations side by side ---------------------------------

\* the same call is made on the C++ tree and on the Go tree
BothInsert(value) ==
    /\ Cardinality(DOMAIN nodes) + 2 <= MaxNodes
    /\ Apply(insert(Tree, value))
    /\ Record("insert", value, IF root = NULL THEN "root" ELSE "pair")
    /\ goTree' = GoInsert(goTree, value)

BothRemove(value) ==
    /\ Apply(remove(Tree, value))
    /\ Record("remove", value, removeBranch(Tree, value))
    /\ goTree' = GoRemove(goTree, value)

BothClear ==
    /\ Apply(clear(Tree))
    /\ Record("clear", 0, "none")
    /\ goTree' = GoClear(goTree)

NextBoth ==
    \/ \E value \in Values : BothInsert(value)
    \/ \E value \in Values : BothRemove(value)
    \/ BothClear

SpecBoth == Init /\ [][NextBoth]_vars

\* C40: run side by side on the same calls from empty, after every call the
\* Go tree and the C++ tree have the same shape with the same value at
\* every position and the same size, and Find of every value and
\* IsFullBinaryTree return the same result on both.
C40_GoMatchesCpp ==
    /\ Shape(goTree) = Shape(Tree)
    /\ goTree.size = size
    /\ \A value \in Values : GoFind(goTree, value) = find(Tree, value)
    /\ GoIsFullBinaryTree(goTree) = isFullBinaryTree(Tree)

\* both trees went through the remove that drops a leaf and its internal
\* sibling: the C++ heap holds two cells more than the Go heap
C40_Witness ==
    /\ last.op = "remove"
    /\ last.branch = "leaf"
    /\ Cardinality(Reachable(PreTree)) = 5
    /\ Cardinality(Reachable(goTree)) = 1
    /\ Cardinality(DOMAIN nodes) = 3
    /\ Cardinality(DOMAIN goTree.nodes) = 1
    /\ goTree.size = 3

====
